---- MODULE Spec2Model ----
(***************************************************************************)
(* Schema evolution of SpineKit: the Schema Service (schema.service.ts)    *)
(* driving the SQLite adapter (sqlite.adapter.ts).                         *)
(*                                                                         *)
(* The state is the content of the SQLite database (the two catalog        *)
(* relations and the physical user tables with their rows), the adapter's  *)
(* handle and inTransaction flag, the engine's open transaction, a record  *)
(* of the last call, the schema call that is in flight between two of its  *)
(* statements, and what another task has read.                             *)
(* Every Schema Service method is one action that runs the whole method:   *)
(* its checks, beginTransaction, every execute() it issues, and commit or  *)
(* rollback.  Strings that the code inspects character by character        *)
(* (identifiers, names to trim, JSON text) are sequences of characters.    *)
(*                                                                         *)
(* Three specifications share these actions: Spec (one user table, a       *)
(* statement may fail and leave the transaction open), SpecTwoTables (two  *)
(* user tables, fewer column inputs) and SpecStorage (one user table, a    *)
(* failing statement may also make the engine end the transaction).        *)
(* SpecAdapter calls the adapter's own methods in any order.  SpecTasks    *)
(* runs addColumn and removeConstraint statement by statement, with the    *)
(* calls and reads of other tasks between the statements.  SpecData lists  *)
(* records through the Data Service between schema changes.  SpecRebuild   *)
(* runs removeConstraint beside a user table that has the name of the      *)
(* rebuild's temporary relation.  SpecFields runs createTable, addColumn   *)
(* and deleteColumn alone.                                                 *)
(***************************************************************************)
EXTENDS Integers, Sequences, FiniteSets, TLC

(***************************************************************************)
(* Bounds of the model.                                                    *)
(***************************************************************************)
MaxFields == 2
MaxRows == 1

(***************************************************************************)
(* Characters and strings.                                                 *)
(***************************************************************************)
\* The characters of the model in ASCII (binary collation) order.
Alphabet ==
  << " ", "\"", "'", "-", "0", "1", "2", "3", "4", "5", "6", "7", "8", "9",
     "_", "a", "b", "c", "d", "e", "f", "g", "h", "i", "j", "k", "l", "m",
     "n", "o", "p", "q", "r", "s", "t", "u", "v", "w", "x", "y", "z" >>

CharCode(ch) == CHOOSE i \in 1..Len(Alphabet) : Alphabet[i] = ch

RECURSIVE StrLess(_, _)
\* s < t in SQLite's BINARY collation (the order of an index scan).
StrLess(s, t) ==
  IF t = <<>> THEN FALSE
  ELSE IF s = <<>> THEN TRUE
  ELSE IF Head(s) = Head(t) THEN StrLess(Tail(s), Tail(t))
  ELSE CharCode(Head(s)) < CharCode(Head(t))

IdentStart ==
  { "_", "a", "b", "c", "d", "e", "f", "g", "h", "i", "j", "k", "l", "m",
    "n", "o", "p", "q", "r", "s", "t", "u", "v", "w", "x", "y", "z" }

IdentRest == IdentStart \cup { "0", "1", "2", "3", "4", "5", "6", "7", "8", "9" }

\* /^[a-zA-Z_][a-zA-Z0-9_]*$/
identifierRegex(s) ==
  /\ Len(s) >= 1
  /\ s[1] \in IdentStart
  /\ \A i \in 2..Len(s) : s[i] \in IdentRest

Whitespace == { " " }

RECURSIVE TrimStart(_)
TrimStart(s) ==
  IF s # <<>> /\ Head(s) \in Whitespace THEN TrimStart(Tail(s)) ELSE s

RECURSIVE TrimEnd(_)
TrimEnd(s) ==
  IF s # <<>> /\ s[Len(s)] \in Whitespace
  THEN TrimEnd(SubSeq(s, 1, Len(s) - 1)) ELSE s

\* String.prototype.trim
Trim(s) == TrimEnd(TrimStart(s))

(***************************************************************************)
(* Optional values: undefined (JavaScript) or NULL (SQL) is None.          *)
(***************************************************************************)
None == <<>>
Some(x) == <<x>>
IsSome(o) == o # <<>>
Val(o) == o[1]

(***************************************************************************)
(* JavaScript values used as defaultValue, and their JSON text.            *)
(***************************************************************************)
TrueText == <<"t", "r", "u", "e">>
FalseText == <<"f", "a", "l", "s", "e">>
JSBool(b) == [t |-> "boolean", v |-> IF b THEN TrueText ELSE FalseText]
JSNum(digits) == [t |-> "number", v |-> digits]
JSStr(s) == [t |-> "string", v |-> s]

\* JavaScript truthiness of a defined value.
Truthy(val) ==
  CASE val.t = "boolean" -> val.v = TrueText
    [] val.t = "number" -> val.v # <<"0">>
    [] OTHER -> val.v # <<>>

\* JavaScript truthiness of a possibly undefined value.
TruthyOpt(o) == IsSome(o) /\ Truthy(Val(o))

JSONStringify(val) ==
  IF val.t = "string" THEN <<"\"">> \o val.v \o <<"\"">> ELSE val.v

JSONParse(text) ==
  IF Head(text) = "\""
  THEN [t |-> "string", v |-> SubSeq(text, 2, Len(text) - 1)]
  ELSE IF text \in { TrueText, FalseText }
  THEN [t |-> "boolean", v |-> text]
  ELSE [t |-> "number", v |-> text]

(***************************************************************************)
(* The database.                                                           *)
(*   tables : rows of _spinekit_tables                                     *)
(*   fields : rows of _spinekit_fields                                     *)
(*   phys   : the user relations, name -> [cols, rows]                     *)
(* The relations that connect() creates itself are named in                *)
(* SystemRelations; sqlite_master lists them next to the user relations.   *)
(***************************************************************************)
NameId == <<"i", "d">>
NameCreatedAt == <<"c", "r", "e", "a", "t", "e", "d", "_", "a", "t">>
NameUpdatedAt == <<"u", "p", "d", "a", "t", "e", "d", "_", "a", "t">>

systemColumns == { NameId, NameCreatedAt, NameUpdatedAt }

SystemRelations ==
  { <<"_", "s", "p", "i", "n", "e", "k", "i", "t", "_", "t", "a", "b", "l", "e", "s">>,
    <<"_", "s", "p", "i", "n", "e", "k", "i", "t", "_", "f", "i", "e", "l", "d", "s">>,
    <<"u", "s", "e", "r">>,
    <<"s", "e", "s", "s", "i", "o", "n">>,
    <<"a", "c", "c", "o", "u", "n", "t">>,
    <<"v", "e", "r", "i", "f", "i", "c", "a", "t", "i", "o", "n">> }

EmptyDb == [tables |-> {}, fields |-> {}, phys |-> <<>>]

\* A physical column as the CREATE TABLE / ADD COLUMN text defines it.
PhysCol(name, type, notnull, unique, dflt, pk) ==
  [name |-> name, type |-> type, notnull |-> notnull, unique |-> unique,
   dflt |-> dflt, pk |-> pk]

ColId == PhysCol(NameId, "TEXT", FALSE, FALSE, None, TRUE)
ColCreatedAt == PhysCol(NameCreatedAt, "TEXT", TRUE, FALSE, None, FALSE)
ColUpdatedAt == PhysCol(NameUpdatedAt, "TEXT", TRUE, FALSE, None, FALSE)

ColNames(cols) == { cols[i].name : i \in 1..Len(cols) }

ColByName(cols, c) == cols[CHOOSE i \in 1..Len(cols) : cols[i].name = c]

NoDuplicateColumns(cols) ==
  \A i, j \in 1..Len(cols) : cols[i].name = cols[j].name => i = j

\* Cells of a row.
NullCell == [src |-> "null", p |-> <<>>, c |-> <<>>]
DefaultCell(literal) == [src |-> "default", p |-> literal, c |-> <<>>]
DataCell(payload, col) == [src |-> "data", p |-> payload, c |-> col]
MetaCell(payload) == [src |-> "meta", p |-> payload, c |-> <<>>]

Failed(db) == [ok |-> FALSE, db |-> db]
Done(db) == [ok |-> TRUE, db |-> db]

\* A lookup in sqlite_master that finds the system relations only.
tableExistsSystemOnly(db, tableName) == tableName \in SystemRelations

\* SELECT COUNT(*) FROM sqlite_master WHERE type='table' AND name=?
tableExists(db, tableName) ==
  tableName \in SystemRelations \cup DOMAIN db.phys

\* A row satisfies the NOT NULL and UNIQUE constraints of cols next to rows.
RowAccepted(cols, rows, row) ==
  \A i \in 1..Len(cols) :
    LET col == cols[i] IN
    /\ (col.notnull => row[col.name] # NullCell)
    /\ ((col.unique \/ col.pk) /\ row[col.name] # NullCell =>
          \A r \in rows : r[col.name] # row[col.name])

\* INSERT INTO _spinekit_tables (...) VALUES (...)
ExecInsertTable(db, row) ==
  IF \E r \in db.tables : r.id = row.id \/ r.name = row.name
  THEN Failed(db)
  ELSE Done([db EXCEPT !.tables = @ \cup {row}])

\* INSERT INTO _spinekit_fields (...) VALUES (...)
ExecInsertField(db, row) ==
  IF \/ \E r \in db.fields : r.table_id = row.table_id /\ r.name = row.name
     \/ ~ \E tr \in db.tables : tr.id = row.table_id
  THEN Failed(db)
  ELSE Done([db EXCEPT !.fields = @ \cup {row}])

\* CREATE TABLE name (cols)
ExecCreateTable(db, name, cols) ==
  IF tableExists(db, name) \/ ~NoDuplicateColumns(cols)
  THEN Failed(db)
  ELSE Done([db EXCEPT !.phys =
         [n \in DOMAIN db.phys \cup {name} |->
            IF n = name THEN [cols |-> cols, rows |-> {}] ELSE db.phys[n]]])

RemoveRelation(phys, name) == [n \in DOMAIN phys \ {name} |-> phys[n]]

\* DROP TABLE IF EXISTS name
ExecDropTableIfExists(db, name) ==
  Done([db EXCEPT !.phys = RemoveRelation(db.phys, name)])

\* DROP TABLE name
ExecDropTable(db, name) ==
  IF name \notin DOMAIN db.phys THEN Failed(db)
  ELSE Done([db EXCEPT !.phys = RemoveRelation(db.phys, name)])

\* The DELETE on a connection without PRAGMA foreign_keys = ON: the field
\* rows stay.
ExecDeleteTableRowNoCascade(db, name) ==
  Done([db EXCEPT !.tables = { r \in @ : r.name # name }])

\* DELETE FROM _spinekit_tables WHERE name = ?  (fields go by ON DELETE CASCADE)
ExecDeleteTableRow(db, name) ==
  LET gone == { r.id : r \in { x \in db.tables : x.name = name } } IN
  Done([db EXCEPT !.tables = { r \in @ : r.name # name },
                  !.fields = { f \in @ : f.table_id \notin gone }])

\* ALTER TABLE name ADD COLUMN col
ExecAddColumn(db, name, col) ==
  IF name \notin DOMAIN db.phys THEN Failed(db)
  ELSE IF col.unique THEN Failed(db)
  ELSE IF col.notnull /\ ~IsSome(col.dflt) THEN Failed(db)
  ELSE IF col.name \in ColNames(db.phys[name].cols) THEN Failed(db)
  ELSE
    LET cell == IF IsSome(col.dflt) THEN DefaultCell(Val(col.dflt)) ELSE NullCell
        old == db.phys[name]
        cols == Append(old.cols, col)
    IN Done([db EXCEPT !.phys[name] =
         [cols |-> cols,
          rows |-> { [c \in ColNames(cols) |->
                        IF c = col.name THEN cell ELSE r[c]] : r \in old.rows }]])

DropAt(seq, i) == SubSeq(seq, 1, i - 1) \o SubSeq(seq, i + 1, Len(seq))

\* A DROP COLUMN that reports success and drops nothing.
ExecDropColumnKept(db, name, columnName) == Done(db)

\* ALTER TABLE name DROP COLUMN columnName
ExecDropColumn(db, name, columnName) ==
  IF name \notin DOMAIN db.phys THEN Failed(db)
  ELSE IF columnName \notin ColNames(db.phys[name].cols) THEN Failed(db)
  ELSE IF ColByName(db.phys[name].cols, columnName).unique
          \/ ColByName(db.phys[name].cols, columnName).pk THEN Failed(db)
  ELSE
    LET old == db.phys[name]
        i == CHOOSE k \in 1..Len(old.cols) : old.cols[k].name = columnName
        cols == DropAt(old.cols, i)
    IN Done([db EXCEPT !.phys[name] =
         [cols |-> cols,
          rows |-> { [c \in ColNames(cols) |-> r[c]] : r \in old.rows }]])

\* ALTER TABLE name RENAME COLUMN oldName TO newName
ExecRenameColumn(db, name, oldName, newName) ==
  IF name \notin DOMAIN db.phys THEN Failed(db)
  ELSE IF oldName \notin ColNames(db.phys[name].cols) THEN Failed(db)
  ELSE IF newName \in ColNames(db.phys[name].cols) \ {oldName} THEN Failed(db)
  ELSE
    LET old == db.phys[name]
        cols == [k \in 1..Len(old.cols) |->
                   IF old.cols[k].name = oldName
                   THEN [old.cols[k] EXCEPT !.name = newName] ELSE old.cols[k]]
    IN Done([db EXCEPT !.phys[name] =
         [cols |-> cols,
          rows |-> { [c \in ColNames(cols) |->
                        IF c = newName THEN r[oldName] ELSE r[c]] : r \in old.rows }]])

\* A DELETE that leaves out the name: DELETE ... WHERE table_id = ?
ExecDeleteFieldsOfTable(db, tableId, columnName) ==
  Done([db EXCEPT !.fields = { f \in @ : f.table_id # tableId }])

\* DELETE FROM _spinekit_fields WHERE table_id = ? AND name = ?
ExecDeleteField(db, tableId, columnName) ==
  Done([db EXCEPT !.fields =
     { f \in @ : ~(f.table_id = tableId /\ f.name = columnName) }])

\* An UPDATE that leaves out the old name: ... SET name = ? WHERE table_id = ?
ExecRenameFieldOfTable(db, tableId, oldName, newName) ==
  Done([db EXCEPT !.fields =
         { IF f.table_id = tableId THEN [f EXCEPT !.name = newName] ELSE f : f \in @ }])

\* UPDATE _spinekit_fields SET name = ? WHERE table_id = ? AND name = ?
ExecRenameField(db, tableId, oldName, newName) ==
  IF \E f \in db.fields : f.table_id = tableId /\ f.name = newName
        /\ \E g \in db.fields : g.table_id = tableId /\ g.name = oldName
  THEN Failed(db)
  ELSE Done([db EXCEPT !.fields =
     { IF f.table_id = tableId /\ f.name = oldName
       THEN [f EXCEPT !.name = newName] ELSE f : f \in @ }])

\* UPDATE _spinekit_fields SET required = 1 - required WHERE table_id = ? AND name = ?
ExecToggleRequired(db, tableId, columnName) ==
  Done([db EXCEPT !.fields =
     { IF f.table_id = tableId /\ f.name = columnName
       THEN [f EXCEPT !.required = 1 - @] ELSE f : f \in @ }])

\* UPDATE _spinekit_fields SET required = 0 WHERE table_id = ? AND name = ?
ExecClearRequired(db, tableId, columnName) ==
  Done([db EXCEPT !.fields =
     { IF f.table_id = tableId /\ f.name = columnName
       THEN [f EXCEPT !.required = 0] ELSE f : f \in @ }])

\* UPDATE _spinekit_fields SET unique_constraint = 0 WHERE table_id = ? AND name = ?
ExecClearUnique(db, tableId, columnName) ==
  Done([db EXCEPT !.fields =
     { IF f.table_id = tableId /\ f.name = columnName
       THEN [f EXCEPT !.unique_constraint = 0] ELSE f : f \in @ }])

\* The UPDATE without the name in its WHERE: ... WHERE table_id = ?
ExecUpdateMetadataOfTable(db, tableId, columnName, displayName, description) ==
  Done([db EXCEPT !.fields =
     { IF f.table_id = tableId
       THEN [f EXCEPT
               !.display_name = IF IsSome(displayName) THEN Val(displayName) ELSE @,
               !.description = IF IsSome(description) THEN description ELSE @]
       ELSE f : f \in @ }])

\* UPDATE _spinekit_fields SET display_name = ?, description = ? WHERE ...
\* (a part that the caller left undefined is not in the SET list)
ExecUpdateMetadata(db, tableId, columnName, displayName, description) ==
  Done([db EXCEPT !.fields =
     { IF f.table_id = tableId /\ f.name = columnName
       THEN [f EXCEPT
               !.display_name = IF IsSome(displayName) THEN Val(displayName) ELSE @,
               !.description = IF IsSome(description) THEN description ELSE @]
       ELSE f : f \in @ }])

\* The row that INSERT INTO temp (columns) SELECT columns FROM source makes
\* of a source row: listed columns by name, the others by their default.
CopiedRow(cols, columns, r) ==
  [c \in ColNames(cols) |->
     IF c \in columns THEN r[c]
     ELSE IF IsSome(ColByName(cols, c).dflt)
          THEN DefaultCell(Val(ColByName(cols, c).dflt)) ELSE NullCell]

\* A copy by position: INSERT INTO temp SELECT * FROM source
ExecCopyRowsPositional(db, temp, columns, source) ==
  IF temp \notin DOMAIN db.phys \/ source \notin DOMAIN db.phys THEN Failed(db)
  ELSE IF Len(db.phys[temp].cols) # Len(db.phys[source].cols) THEN Failed(db)
  ELSE
    LET cols == db.phys[temp].cols
        from == db.phys[source].cols
        copied == { [c \in ColNames(cols) |->
                       r[from[CHOOSE k \in 1..Len(cols) : cols[k].name = c].name]] :
                    r \in db.phys[source].rows }
    IN IF /\ Cardinality(copied) = Cardinality(db.phys[source].rows)
          /\ \A row \in copied :
               RowAccepted(cols, (db.phys[temp].rows \cup copied) \ {row}, row)
       THEN Done([db EXCEPT !.phys[temp].rows = @ \cup copied])
       ELSE Failed(db)

\* INSERT INTO temp (columns) SELECT columns FROM source
ExecCopyRows(db, temp, columns, source) ==
  IF temp \notin DOMAIN db.phys \/ source \notin DOMAIN db.phys THEN Failed(db)
  ELSE IF ~(columns \subseteq ColNames(db.phys[temp].cols))
          \/ ~(columns \subseteq ColNames(db.phys[source].cols)) THEN Failed(db)
  ELSE
    LET cols == db.phys[temp].cols
        copied == { CopiedRow(cols, columns, r) : r \in db.phys[source].rows }
    IN IF /\ Cardinality(copied) = Cardinality(db.phys[source].rows)
          /\ \A row \in copied :
               RowAccepted(cols, (db.phys[temp].rows \cup copied) \ {row}, row)
       THEN Done([db EXCEPT !.phys[temp].rows = @ \cup copied])
       ELSE Failed(db)

\* ALTER TABLE from RENAME TO to
ExecRenameTable(db, from, to) ==
  IF from \notin DOMAIN db.phys \/ tableExists(db, to) THEN Failed(db)
  ELSE Done([db EXCEPT !.phys =
         [n \in (DOMAIN db.phys \ {from}) \cup {to} |->
            IF n = to THEN db.phys[from] ELSE db.phys[n]]])

\* INSERT INTO name (id, columns..., created_at, updated_at) VALUES (...)
ExecInsertRow(db, name, row) ==
  IF name \notin DOMAIN db.phys THEN Failed(db)
  ELSE IF DOMAIN row # ColNames(db.phys[name].cols) THEN Failed(db)
  ELSE IF ~RowAccepted(db.phys[name].cols, db.phys[name].rows, row) THEN Failed(db)
  ELSE Done([db EXCEPT !.phys[name].rows = @ \cup {row}])

(***************************************************************************)
(* Transactions of the adapter.  BEGIN takes the snapshot that ROLLBACK    *)
(* restores; SQLite's transactions cover DDL as well as rows.              *)
(***************************************************************************)
\* A ROLLBACK that restores the catalog and leaves the DDL of the
\* transaction in place (an engine whose DDL commits implicitly).
RollbackCatalogOnly(snapshot, working) == [snapshot EXCEPT !.phys = working.phys]

\* ROLLBACK: the database as it was at BEGIN TRANSACTION.
Rollback(snapshot, working) == snapshot

\* COMMIT: the writes of the transaction become the database.
Commit(snapshot, working) == working

\* A failure that the storage engine injects for a reason of its own is
\* named by the statement it hits: failAt = k fails the k-th statement of
\* the call and leaves the transaction open (SQLITE_BUSY, a constraint),
\* failAt = -k fails it with an error on which SQLite rolls the transaction
\* back by itself (SQLITE_FULL, SQLITE_IOERR), failAt = 0 fails nothing.
FailStep(failAt) == IF failAt < 0 THEN 0 - failAt ELSE failAt

Aborts(failAt) == failAt < 0

\* The state of a running handler: ok until a statement throws, db the
\* working database, n the number of execute() calls that have succeeded,
\* error the error thrown, active whether the engine's transaction is open.
Begin(db) == [ok |-> TRUE, db |-> db, n |-> 0, error |-> "none", active |-> TRUE]

\* Issue the next execute().
Then(prev, failAt, res) ==
  IF ~prev.ok THEN prev
  ELSE IF FailStep(failAt) = prev.n + 1
       THEN [ok |-> FALSE, db |-> prev.db, n |-> prev.n, error |-> "storage",
             active |-> ~Aborts(failAt)]
  ELSE IF ~res.ok
       THEN [ok |-> FALSE, db |-> prev.db, n |-> prev.n, error |-> "storage",
             active |-> TRUE]
       ELSE [ok |-> TRUE, db |-> res.db, n |-> prev.n + 1, error |-> "none",
             active |-> TRUE]

\* commit() after the last execute(); it is the step after the n-th write.
\* commit() clears inTransaction after its COMMIT has gone through.
CommitStep(prev, failAt) ==
  IF prev.ok /\ FailStep(failAt) = prev.n + 1
  THEN [prev EXCEPT !.ok = FALSE, !.error = "storage", !.active = ~Aborts(failAt)]
  ELSE prev

\* What a handler returns to the model.
Rejected(db, error) ==
  [outcome |-> "rejected", error |-> error, began |-> FALSE, writes |-> 0, db |-> db]

NoOp(db) ==
  [outcome |-> "noop", error |-> "none", began |-> FALSE, writes |-> 0, db |-> db]

\* beginTransaction() of an adapter whose inTransaction is set throws:
\* the call fails before its try block.
BeginRefused(db) ==
  [outcome |-> "failed", error |-> "transaction_state", began |-> FALSE,
   writes |-> 0, db |-> db]

\* A catch block that rethrows without rollback().
FinishWithoutRollback(snapshot, last) ==
  IF last.ok
  THEN [outcome |-> "ok", error |-> "none", began |-> TRUE, writes |-> last.n,
        db |-> Commit(snapshot, last.db), inTransaction |-> FALSE]
  ELSE [outcome |-> "failed", error |-> last.error, began |-> TRUE, writes |-> last.n,
        db |-> last.db, inTransaction |-> TRUE]

\* try { ...; commit } catch { rollback; throw }.  rollback() runs ROLLBACK
\* and then clears inTransaction; when the engine has no transaction open,
\* ROLLBACK throws, the flag stays set and the error of ROLLBACK is the one
\* that leaves the catch block.  inTransaction is the adapter's flag when
\* the call returns.
Finish(snapshot, last) ==
  IF last.ok
  THEN [outcome |-> "ok", error |-> "none", began |-> TRUE, writes |-> last.n,
        db |-> Commit(snapshot, last.db), inTransaction |-> FALSE]
  ELSE IF last.active
  THEN [outcome |-> "failed", error |-> last.error, began |-> TRUE, writes |-> last.n,
        db |-> Rollback(snapshot, last.db), inTransaction |-> FALSE]
  ELSE [outcome |-> "failed", error |-> "transaction_state", began |-> TRUE,
        writes |-> last.n, db |-> snapshot, inTransaction |-> TRUE]

(***************************************************************************)
(* Schema Service: validation and catalog reads.                           *)
(***************************************************************************)
fieldTypeSchema == { "string", "number", "boolean", "date", "json" }

\* fieldDefinitionSchema.parse accepts the field
fieldDefinitionSchema(f) ==
  /\ Len(f.name) >= 1
  /\ identifierRegex(f.name)
  /\ Len(f.displayName) >= 1
  /\ f.type \in fieldTypeSchema

\* tableSchemaSchema.parse accepts the input
tableSchemaSchema(input) ==
  /\ Len(input.name) >= 1
  /\ identifierRegex(input.name)
  /\ Len(input.displayName) >= 1
  /\ Len(input.fields) >= 1
  /\ \A i \in 1..Len(input.fields) : fieldDefinitionSchema(input.fields[i])

mapFieldTypeToSQL(fieldType) ==
  CASE fieldType = "string" -> "TEXT"
    [] fieldType = "number" -> "REAL"
    [] fieldType = "boolean" -> "INTEGER"
    [] fieldType = "date" -> "TEXT"
    [] fieldType = "json" -> "TEXT"
    [] OTHER -> "TEXT"

formatDefaultValue(value, type) ==
  IF type \in { "string", "date", "json" } THEN <<"'">> \o value.v \o <<"'">>
  ELSE IF type = "boolean" THEN (IF Truthy(value) THEN <<"1">> ELSE <<"0">>)
  ELSE IF type = "number" THEN value.v
  ELSE <<"N", "U", "L", "L">>

\* field.defaultValue ? JSON.stringify(field.defaultValue) : null
DefaultValueParam(defaultValue) ==
  IF TruthyOpt(defaultValue) THEN Some(JSONStringify(Val(defaultValue))) ELSE None

\* field.description || null
DescriptionParam(description) ==
  IF IsSome(description) /\ Val(description) # <<>> THEN description ELSE None

\* The parameters of INSERT INTO _spinekit_fields for one field.
FieldRow(tableId, field, sortOrder) ==
  [table_id |-> tableId,
   name |-> field.name,
   display_name |-> field.displayName,
   type |-> field.type,
   required |-> IF field.required THEN 1 ELSE 0,
   unique_constraint |-> IF field.unique THEN 1 ELSE 0,
   default_value |-> DefaultValueParam(field.defaultValue),
   description |-> DescriptionParam(field.description),
   sort_order |-> sortOrder]

\* A listing with ORDER BY name.
ListedBeforeByName(x, y) == StrLess(x.name, y.name)

\* Row x is listed before row y by
\*   SELECT ... WHERE table_id = ? ORDER BY sort_order ASC
\* SQLite searches the UNIQUE(table_id, name) index and sorts stably, so
\* rows of equal sort_order come in the order of their names.
ListedBefore(x, y) ==
  \/ x.sort_order < y.sort_order
  \/ x.sort_order = y.sort_order /\ StrLess(x.name, y.name)

RECURSIVE OrderBySortOrder(_)
OrderBySortOrder(rows) ==
  IF rows = {} THEN <<>>
  ELSE LET first == CHOOSE x \in rows : \A y \in rows \ {x} : ListedBefore(x, y)
       IN <<first>> \o OrderBySortOrder(rows \ {first})

\* fields.map(...) of getTableFields: one FieldDefinition of a catalog row
FieldOfRow(row) ==
  [name |-> row.name,
   displayName |-> row.display_name,
   type |-> row.type,
   required |-> row.required = 1,
   unique |-> row.unique_constraint = 1,
   defaultValue |-> IF IsSome(row.default_value) /\ Val(row.default_value) # <<>>
                    THEN Some(JSONParse(Val(row.default_value))) ELSE None,
   description |-> IF IsSome(row.description) /\ Val(row.description) # <<>>
                   THEN row.description ELSE None]

getTableFields(db, tableId) ==
  LET rows == OrderBySortOrder({ f \in db.fields : f.table_id = tableId })
  IN [i \in 1..Len(rows) |-> FieldOfRow(rows[i])]

\* getTable: None for null
getTable(db, tableName) ==
  IF ~ \E r \in db.tables : r.name = tableName THEN None
  ELSE LET table == CHOOSE r \in db.tables : r.name = tableName
       IN Some([id |-> table.id,
                name |-> table.name,
                displayName |-> table.display_name,
                description |-> IF IsSome(table.description) /\ Val(table.description) # <<>>
                                THEN table.description ELSE None,
                fields |-> getTableFields(db, table.id)])

\* table.fields.find((f) => f.name === name) finds a field
HasField(table, name) ==
  \E i \in 1..Len(table.fields) : table.fields[i].name = name

FindField(table, name) ==
  table.fields[CHOOSE i \in 1..Len(table.fields) :
                 /\ table.fields[i].name = name
                 /\ \A j \in 1..(i - 1) : table.fields[j].name # name]

(***************************************************************************)
(* Schema Service: the operations.  Each returns the outcome of the whole  *)
(* call on database db.                                                    *)
(***************************************************************************)
\* A column list without the system columns.
PhysicalColumnsWithoutSystem(fields) ==
  [i \in 1..Len(fields) |->
     PhysCol(fields[i].name, mapFieldTypeToSQL(fields[i].type),
             fields[i].required, fields[i].unique, None, FALSE)]

\* The column list of createPhysicalTable.
PhysicalColumns(fields) ==
  <<ColId>>
  \o [i \in 1..Len(fields) |->
        PhysCol(fields[i].name, mapFieldTypeToSQL(fields[i].type),
                fields[i].required, fields[i].unique, None, FALSE)]
  \o <<ColCreatedAt, ColUpdatedAt>>

createPhysicalTable(db, tableName, fields) ==
  ExecCreateTable(db, tableName, PhysicalColumns(fields))

RECURSIVE InsertFields(_, _, _, _, _)
\* the loop of createTable over validated.fields, from index i
InsertFields(prev, failAt, tableId, fields, i) ==
  IF i > Len(fields) THEN prev
  ELSE InsertFields(
         Then(prev, failAt, ExecInsertField(prev.db, FieldRow(tableId, fields[i], i - 1))),
         failAt, tableId, fields, i + 1)

\* The checks of createTable without the one for a table of that name.
createTableCheckWithoutExists(db, input) ==
  IF ~tableSchemaSchema(input) THEN "validation" ELSE "none"

\* The checks of createTable before beginTransaction: the error, or "none".
createTableCheck(db, input) ==
  IF ~tableSchemaSchema(input) THEN "validation"
  ELSE IF tableExists(db, input.name) THEN "table_exists"
  ELSE "none"

createTable(db, input, tableId, failAt) ==
  LET error == createTableCheck(db, input) IN
  IF error # "none" THEN Rejected(db, error)
  ELSE
    LET s1 == Then(Begin(db), failAt,
                   ExecInsertTable(db, [id |-> tableId, name |-> input.name,
                                        display_name |-> input.displayName,
                                        description |-> DescriptionParam(input.description)]))
        s2 == InsertFields(s1, failAt, tableId, input.fields, 1)
        s3 == Then(s2, failAt, createPhysicalTable(s2.db, input.name, input.fields))
    IN Finish(db, CommitStep(s3, failAt))

\* A deleteTable that does not look the table up.
deleteTableCheckWithoutLookup(db, tableName) == "none"

\* The check of deleteTable before beginTransaction.
deleteTableCheck(db, tableName) ==
  IF ~IsSome(getTable(db, tableName)) THEN "not_found" ELSE "none"

deleteTable(db, tableName, failAt) ==
  IF deleteTableCheck(db, tableName) # "none" THEN Rejected(db, "not_found")
  ELSE
    LET s1 == Then(Begin(db), failAt, ExecDropTableIfExists(db, tableName))
        s2 == Then(s1, failAt, ExecDeleteTableRow(s1.db, tableName))
    IN Finish(db, CommitStep(s2, failAt))

\* The column of ALTER TABLE ... ADD COLUMN in addColumn.
AddedColumn(validated) ==
  PhysCol(validated.name, mapFieldTypeToSQL(validated.type),
          validated.required, validated.unique,
          IF IsSome(validated.defaultValue)
          THEN Some(formatDefaultValue(Val(validated.defaultValue), validated.type))
          ELSE None,
          FALSE)

\* The checks of addColumn without the rule that a required field carries
\* a default value.
addColumnCheckWithoutDefaultRule(db, tableName, fieldDefinition) ==
  LET table == getTable(db, tableName) IN
  IF ~IsSome(table) THEN "not_found"
  ELSE IF ~fieldDefinitionSchema(fieldDefinition) THEN "validation"
  ELSE IF HasField(Val(table), fieldDefinition.name) THEN "column_exists"
  ELSE "none"

\* The checks of addColumn before beginTransaction: the error, or "none".
addColumnCheck(db, tableName, fieldDefinition) ==
  LET table == getTable(db, tableName) IN
  IF ~IsSome(table) THEN "not_found"
  ELSE IF ~fieldDefinitionSchema(fieldDefinition) THEN "validation"
  ELSE IF HasField(Val(table), fieldDefinition.name) THEN "column_exists"
  ELSE IF fieldDefinition.required /\ ~TruthyOpt(fieldDefinition.defaultValue)
       THEN "required_without_default"
  ELSE "none"

addColumn(db, tableName, fieldDefinition, failAt) ==
  LET error == addColumnCheck(db, tableName, fieldDefinition) IN
  IF error # "none" THEN Rejected(db, error)
  ELSE
    LET table == Val(getTable(db, tableName))
        sortOrder == Len(table.fields)
        s1 == Then(Begin(db), failAt,
                   ExecInsertField(db, FieldRow(table.id, fieldDefinition, sortOrder)))
        s2 == Then(s1, failAt, ExecAddColumn(s1.db, tableName, AddedColumn(fieldDefinition)))
    IN Finish(db, CommitStep(s2, failAt))

\* The checks of deleteColumn without the lookup of the column.
deleteColumnCheckWithoutLookup(db, tableName, columnName) ==
  LET table == getTable(db, tableName) IN
  IF ~IsSome(table) THEN "not_found"
  ELSE IF columnName \in systemColumns THEN "system_column"
  ELSE "none"

\* The checks of deleteColumn before beginTransaction: the error, or "none".
deleteColumnCheck(db, tableName, columnName) ==
  LET table == getTable(db, tableName) IN
  IF ~IsSome(table) THEN "not_found"
  ELSE IF columnName \in systemColumns THEN "system_column"
  ELSE IF ~HasField(Val(table), columnName) THEN "column_not_found"
  ELSE "none"

deleteColumn(db, tableName, columnName, failAt) ==
  LET error == deleteColumnCheck(db, tableName, columnName) IN
  IF error # "none" THEN Rejected(db, error)
  ELSE
    LET table == Val(getTable(db, tableName))
        s1 == Then(Begin(db), failAt, ExecDeleteField(db, table.id, columnName))
        s2 == Then(s1, failAt, ExecDropColumn(s1.db, tableName, columnName))
    IN Finish(db, CommitStep(s2, failAt))

\* The checks of updateColumnMetadata before beginTransaction.
updateColumnMetadataCheck(db, tableName, columnName, updates) ==
  LET table == getTable(db, tableName) IN
  IF ~IsSome(table) THEN "not_found"
  ELSE IF ~HasField(Val(table), columnName) THEN "column_not_found"
  ELSE IF IsSome(updates.displayName) /\ Trim(Val(updates.displayName)) = <<>>
       THEN "empty_display_name"
  ELSE "none"

updateColumnMetadata(db, tableName, columnName, updates, failAt) ==
  LET error == updateColumnMetadataCheck(db, tableName, columnName, updates) IN
  IF error # "none" THEN Rejected(db, error)
  ELSE
    LET table == Val(getTable(db, tableName))
        s1 == Then(Begin(db), failAt,
                   ExecUpdateMetadata(db, table.id, columnName,
                                      updates.displayName, updates.description))
    IN Finish(db, CommitStep(s1, failAt))

\* A column list that gives the named column no constraint at all.
RebuildColumnsBare(fields, columnName, constraint) ==
  <<ColId>>
  \o [i \in 1..Len(fields) |->
        LET field == fields[i] IN
        IF field.name = columnName
        THEN PhysCol(field.name, mapFieldTypeToSQL(field.type), FALSE, FALSE, None, FALSE)
        ELSE PhysCol(field.name, mapFieldTypeToSQL(field.type),
                     field.required, field.unique, None, FALSE)]
  \o <<ColCreatedAt, ColUpdatedAt>>

\* A column list that leaves the constraints of every column in place.
RebuildColumnsKeepingConstraint(fields, columnName, constraint) ==
  <<ColId>>
  \o [i \in 1..Len(fields) |->
        LET field == fields[i] IN
        IF field.name = columnName
        THEN PhysCol(field.name, mapFieldTypeToSQL(field.type),
                     constraint = "UNIQUE" \/ field.required,
                     constraint = "NOT NULL" \/ field.unique,
                     None, FALSE)
        ELSE PhysCol(field.name, mapFieldTypeToSQL(field.type),
                     field.required, field.unique, None, FALSE)]
  \o <<ColCreatedAt, ColUpdatedAt>>

\* The column list of the temporary relation of rebuildTableWithoutConstraint.
RebuildColumns(fields, columnName, constraint) ==
  <<ColId>>
  \o [i \in 1..Len(fields) |->
        LET field == fields[i] IN
        IF field.name = columnName
        THEN PhysCol(field.name, mapFieldTypeToSQL(field.type),
                     constraint = "UNIQUE" /\ field.required,
                     constraint = "NOT NULL" /\ field.unique,
                     None, FALSE)
        ELSE PhysCol(field.name, mapFieldTypeToSQL(field.type),
                     field.required, field.unique, None, FALSE)]
  \o <<ColCreatedAt, ColUpdatedAt>>

\* `${tableName}_temp_${Date.now()}`
TempTableName(tableName, now) == tableName \o <<"_", "t", "e", "m", "p", "_">> \o now

\* A rebuild that first clears the name of its temporary relation:
\* DROP TABLE IF EXISTS before CREATE TABLE.
rebuildClearingTempName(prev, failAt, tableName, columnName, constraint, now) ==
  IF ~prev.ok THEN prev
  ELSE IF ~IsSome(getTable(prev.db, tableName))
  THEN [prev EXCEPT !.ok = FALSE, !.error = "not_found"]
  ELSE
    LET table == Val(getTable(prev.db, tableName))
        tempTableName == TempTableName(tableName, now)
        allColumns == {NameId} \cup { table.fields[i].name : i \in 1..Len(table.fields) }
                        \cup {NameCreatedAt, NameUpdatedAt}
        s1 == Then(prev, failAt,
                   ExecCreateTable(ExecDropTableIfExists(prev.db, tempTableName).db,
                                   tempTableName,
                                   RebuildColumns(table.fields, columnName, constraint)))
        s2 == Then(s1, failAt, ExecCopyRows(s1.db, tempTableName, allColumns, tableName))
        s3 == Then(s2, failAt, ExecDropTable(s2.db, tableName))
        s4 == Then(s3, failAt, ExecRenameTable(s3.db, tempTableName, tableName))
    IN s4

\* rebuildTableWithoutConstraint, continuing the transaction prev
rebuildTableWithoutConstraint(prev, failAt, tableName, columnName, constraint, now) ==
  IF ~prev.ok THEN prev
  ELSE IF ~IsSome(getTable(prev.db, tableName))
  THEN [prev EXCEPT !.ok = FALSE, !.error = "not_found"]
  ELSE
    LET table == Val(getTable(prev.db, tableName))
        tempTableName == TempTableName(tableName, now)
        allColumns == {NameId} \cup { table.fields[i].name : i \in 1..Len(table.fields) }
                        \cup {NameCreatedAt, NameUpdatedAt}
        s1 == Then(prev, failAt,
                   ExecCreateTable(prev.db, tempTableName,
                                   RebuildColumns(table.fields, columnName, constraint)))
        s2 == Then(s1, failAt, ExecCopyRows(s1.db, tempTableName, allColumns, tableName))
        s3 == Then(s2, failAt, ExecDropTable(s2.db, tableName))
        s4 == Then(s3, failAt, ExecRenameTable(s3.db, tempTableName, tableName))
    IN s4

\* The checks of removeConstraint before beginTransaction.
removeConstraintCheck(db, tableName, columnName) ==
  LET table == getTable(db, tableName) IN
  IF ~IsSome(table) THEN "not_found"
  ELSE IF ~HasField(Val(table), columnName) THEN "column_not_found"
  ELSE "none"

\* A try block that rebuilds the table before it updates the catalog.
removeConstraintTryRebuildFirst(db, tableName, columnName, constraint, now, failAt) ==
  LET table == Val(getTable(db, tableName))
      s1 == rebuildTableWithoutConstraint(
              Begin(db), failAt, tableName, columnName,
              IF constraint = "required" THEN "NOT NULL" ELSE "UNIQUE", now)
  IN IF constraint = "required"
     THEN Then(s1, failAt, ExecClearRequired(s1.db, table.id, columnName))
     ELSE Then(s1, failAt, ExecClearUnique(s1.db, table.id, columnName))

\* The try block of removeConstraint up to its commit: the transaction
\* after the catalog UPDATE and the rebuild.
removeConstraintTry(db, tableName, columnName, constraint, now, failAt) ==
  LET table == Val(getTable(db, tableName))
      s1 == IF constraint = "required"
            THEN Then(Begin(db), failAt, ExecClearRequired(db, table.id, columnName))
            ELSE Then(Begin(db), failAt, ExecClearUnique(db, table.id, columnName))
  IN rebuildTableWithoutConstraint(
       s1, failAt, tableName, columnName,
       IF constraint = "required" THEN "NOT NULL" ELSE "UNIQUE", now)

removeConstraint(db, tableName, columnName, constraint, now, failAt) ==
  LET error == removeConstraintCheck(db, tableName, columnName) IN
  IF error # "none" THEN Rejected(db, error)
  ELSE Finish(db, CommitStep(
         removeConstraintTry(db, tableName, columnName, constraint, now, failAt),
         failAt))

\* The checks of renameColumn without the one that keeps system column
\* names from being a destination.
renameColumnCheckWithoutSystemNames(db, tableName, oldColumnName, newColumnName) ==
  LET table == getTable(db, tableName) IN
  IF ~IsSome(table) THEN "not_found"
  ELSE IF oldColumnName \in systemColumns THEN "system_column"
  ELSE IF ~HasField(Val(table), oldColumnName) THEN "column_not_found"
  ELSE IF newColumnName = <<>> \/ Trim(newColumnName) = <<>> THEN "empty_name"
  ELSE IF oldColumnName = Trim(newColumnName) THEN "noop"
  ELSE IF ~identifierRegex(Trim(newColumnName)) THEN "invalid_identifier"
  ELSE IF HasField(Val(table), Trim(newColumnName)) THEN "column_exists"
  ELSE "none"

\* The checks of renameColumn without the early return for a new name that
\* trims to the old one.
renameColumnCheckWithoutNoOp(db, tableName, oldColumnName, newColumnName) ==
  LET table == getTable(db, tableName) IN
  IF ~IsSome(table) THEN "not_found"
  ELSE IF oldColumnName \in systemColumns THEN "system_column"
  ELSE IF ~HasField(Val(table), oldColumnName) THEN "column_not_found"
  ELSE IF newColumnName = <<>> \/ Trim(newColumnName) = <<>> THEN "empty_name"
  ELSE IF ~identifierRegex(Trim(newColumnName)) THEN "invalid_identifier"
  ELSE IF Trim(newColumnName) \in systemColumns THEN "system_column_name"
  ELSE IF HasField(Val(table), Trim(newColumnName)) THEN "column_exists"
  ELSE "none"

\* The checks of renameColumn before beginTransaction: the error, "noop"
\* for the early return, or "none".
renameColumnCheck(db, tableName, oldColumnName, newColumnName) ==
  LET table == getTable(db, tableName) IN
  IF ~IsSome(table) THEN "not_found"
  ELSE IF oldColumnName \in systemColumns THEN "system_column"
  ELSE IF ~HasField(Val(table), oldColumnName) THEN "column_not_found"
  ELSE IF newColumnName = <<>> \/ Trim(newColumnName) = <<>> THEN "empty_name"
  ELSE IF oldColumnName = Trim(newColumnName) THEN "noop"
  ELSE IF ~identifierRegex(Trim(newColumnName)) THEN "invalid_identifier"
  ELSE IF Trim(newColumnName) \in systemColumns THEN "system_column_name"
  ELSE IF HasField(Val(table), Trim(newColumnName)) THEN "column_exists"
  ELSE "none"

renameColumn(db, tableName, oldColumnName, newColumnName, failAt) ==
  LET error == renameColumnCheck(db, tableName, oldColumnName, newColumnName) IN
  IF error = "noop" THEN NoOp(db)
  ELSE IF error # "none" THEN Rejected(db, error)
  ELSE
    LET table == Val(getTable(db, tableName))
        trimmedNewName == Trim(newColumnName)
        s1 == Then(Begin(db), failAt,
                   ExecRenameField(db, table.id, oldColumnName, trimmedNewName))
        s2 == Then(s1, failAt,
                   ExecRenameColumn(s1.db, tableName, oldColumnName, trimmedNewName))
    IN Finish(db, CommitStep(s2, failAt))

(***************************************************************************)
(* Inputs of the model.                                                    *)
(***************************************************************************)
NameA == <<"a">>
NameB == <<"b">>
NameC == <<"c">>
TableT == <<"t">>
TableS == <<"s">>
TableUser == <<"u", "s", "e", "r">>
TableMissing == <<"m">>

Field(name, displayName, type, required, unique, defaultValue, description) ==
  [name |-> name, displayName |-> displayName, type |-> type, required |-> required,
   unique |-> unique, defaultValue |-> defaultValue, description |-> description]

FieldPlain == Field(NameA, <<"A">>, "number", FALSE, FALSE, None, None)
FieldKey == Field(NameB, <<"B">>, "string", TRUE, TRUE, None, Some(<<"k">>))
FieldDefaulted == Field(NameC, <<"C">>, "number", TRUE, FALSE, Some(JSNum(<<"5">>)), None)
FieldZero == Field(NameC, <<"Z">>, "number", TRUE, FALSE, Some(JSNum(<<"0">>)), Some(<<>>))
FieldUnique == Field(NameB, <<"U">>, "string", FALSE, TRUE, None, None)
FieldSystem == Field(NameId, <<"I">>, "string", FALSE, FALSE, None, None)
FieldBadName == Field(<<"1", "a">>, <<"N">>, "string", FALSE, FALSE, None, None)

FieldInputs ==
  { FieldPlain, FieldKey, FieldDefaulted, FieldZero, FieldUnique, FieldSystem,
    FieldBadName }

TableInput(name, fields) ==
  [name |-> name, displayName |-> <<"T">>, description |-> None, fields |-> fields]

FieldLists ==
  { <<>>, <<FieldZero, FieldKey>>, <<FieldPlain, FieldPlain>>,
    <<FieldPlain, FieldSystem>>, <<FieldBadName>> }

TableInputs ==
  { TableInput(TableT, fs) : fs \in FieldLists }
    \cup { TableInput(TableUser, <<FieldPlain>>), TableInput(<<"1", "t">>, <<FieldPlain>>) }

TableNameInputs == { TableT, TableMissing }

FieldNameInputs == { NameA, NameB, NameC }

\* Calls that name a column: every column name on table t, one on a table
\* that does not exist.
ColumnInputs ==
  { <<TableT, c>> : c \in FieldNameInputs \cup systemColumns }
    \cup { <<TableMissing, NameA>> }

AddColumnInputs ==
  { <<TableT, f>> : f \in FieldInputs } \cup { <<TableMissing, FieldPlain>> }

ConstraintInputs == { "required", "unique" }

RemoveConstraintInputs ==
  { <<TableT, NameB, k>> : k \in ConstraintInputs }
    \cup { <<TableT, NameA, "required">>, <<TableT, NameId, "unique">>,
           <<TableMissing, NameA, "required">> }

NewNameInputs ==
  { NameC, <<" ", "c", " ">>, <<>>, <<" ">>, <<"a", "-">>, NameId }

RenameColumnInputs ==
  { <<TableT, c, NameC>> : c \in FieldNameInputs \cup systemColumns }
    \cup { <<TableT, NameB, n>> : n \in NewNameInputs }
    \cup { <<TableMissing, NameA, NameC>> }

Updates(displayName, description) ==
  [displayName |-> displayName, description |-> description]

UpdateInputs ==
  { <<TableT, NameB, Updates(Some(<<"B">>), None)>>,
    <<TableT, NameB, Updates(Some(<<" ">>), None)>>,
    <<TableMissing, NameB, Updates(None, Some(<<"d">>))>> }

NowInputs == { <<"7">> }

RowIds == << <<"r", "1">>, <<"r", "2">>, <<"r", "3">> >>

\* The values crypto.randomUUID() draws from.
TableIds == << <<"u", "1">>, <<"u", "2">>, <<"u", "3">> >>

\* crypto.randomUUID(): an id that no catalog row carries.
randomUUID(db) ==
  TableIds[CHOOSE i \in 1..Len(TableIds) :
             /\ \A r \in db.tables : r.id # TableIds[i]
             /\ \A j \in 1..(i - 1) : \E r \in db.tables : r.id = TableIds[j]]

Payloads == { <<"x">> }

\* The statements at which a call that passed its checks can be failed:
\* its execute() calls and its commit (0: no failure).
FailPoints(error, steps) == IF error = "none" THEN (0 - steps)..steps ELSE {0}

\* The failures offered to the calls: of one statement or of none, leaving
\* the transaction open; and the same with the failures that make the
\* engine roll the transaction back.
\* The longest calls: createTable with MaxFields fields (a table INSERT, a
\* field INSERT each, CREATE TABLE, commit) and removeConstraint (five
\* statements and commit).
MaxStatements == IF MaxFields + 3 > 6 THEN MaxFields + 3 ELSE 6

StatementFailures == 0..MaxStatements

StorageFailures == (0 - MaxStatements)..MaxStatements

(***************************************************************************)
(* State and actions.                                                      *)
(***************************************************************************)
\* db is the database as the adapter's connection sees it, inTransaction
\* the adapter's flag, connected whether the adapter holds a handle
\* (this.db is not null), snapshot the database that a ROLLBACK would
\* restore while the engine has a transaction open (None when it has
\* none), flight the schema call of a task that is between its
\* beginTransaction and its commit or rollback (None when there is none),
\* observed what another task has read from the database since it was last
\* written and since a call of the service last returned (None when
\* nothing).
VARIABLES db, inTransaction, lastOp, connected, snapshot, flight, observed

vars == <<db, inTransaction, lastOp, connected, snapshot, flight, observed>>

Init ==
  /\ db = EmptyDb
  /\ inTransaction = FALSE
  /\ connected = TRUE
  /\ snapshot = None
  /\ flight = None
  /\ observed = None
  /\ lastOp = [op |-> "connect", outcome |-> "ok", began |-> FALSE, column |-> None,
               error |-> "none"]

\* A call whose beginTransaction sits inside its try block: when it is
\* refused, the catch block rolls back the transaction that is open.
CallRollingBack(error, r) ==
  IF inTransaction /\ error = "none"
  THEN [outcome |-> "failed", error |-> "transaction_state", began |-> TRUE,
        writes |-> 0, db |-> IF IsSome(snapshot) THEN Val(snapshot) ELSE db,
        inTransaction |-> FALSE]
  ELSE r

\* The outcome of a call whose checks gave error and whose handler, on an
\* adapter that is in no transaction, returns r.
Call(error, r) ==
  IF inTransaction /\ error = "none" THEN BeginRefused(db) ELSE r

\* The call op returned outcome r; column is the column the call named,
\* kept in lastOp when the call committed, and error is the error thrown
\* to the caller by a call that failed.
Returned(op, r, column) ==
  /\ db' = r.db
  /\ inTransaction' = IF r.began THEN r.inTransaction ELSE inTransaction
  /\ lastOp' = [op |-> op, outcome |-> r.outcome, began |-> r.began,
                column |-> IF r.outcome = "ok" THEN column ELSE None,
                error |-> IF r.outcome = "failed" THEN r.error ELSE "none"]
  /\ observed' = None
  /\ UNCHANGED <<connected, snapshot, flight>>

CreateTable(input, failAt) ==
  LET error == createTableCheck(db, input) IN
  /\ failAt \in FailPoints(error, Len(input.fields) + 3)
  /\ Returned("createTable",
              Call(error, createTable(db, input, randomUUID(db), failAt)), None)

DeleteTable(tableName, failAt) ==
  LET error == deleteTableCheck(db, tableName) IN
  /\ failAt \in FailPoints(error, 3)
  /\ Returned("deleteTable", Call(error, deleteTable(db, tableName, failAt)), None)

FieldCount(tableName) ==
  Cardinality({ f \in db.fields : \E r \in db.tables : r.name = tableName /\ r.id = f.table_id })

AddColumn(tableName, fieldDefinition, failAt) ==
  LET error == addColumnCheck(db, tableName, fieldDefinition) IN
  /\ FieldCount(tableName) < MaxFields
  /\ failAt \in FailPoints(error, 3)
  /\ Returned("addColumn",
              Call(error, addColumn(db, tableName, fieldDefinition, failAt)),
              Some(fieldDefinition.name))

DeleteColumn(tableName, columnName, failAt) ==
  LET error == deleteColumnCheck(db, tableName, columnName) IN
  /\ failAt \in FailPoints(error, 3)
  /\ Returned("deleteColumn",
              Call(error, deleteColumn(db, tableName, columnName, failAt)),
              Some(columnName))

UpdateColumnMetadata(tableName, columnName, updates, failAt) ==
  LET error == updateColumnMetadataCheck(db, tableName, columnName, updates) IN
  /\ failAt \in FailPoints(error, 2)
  /\ Returned("updateColumnMetadata",
              Call(error, updateColumnMetadata(db, tableName, columnName, updates,
                                               failAt)),
              Some(columnName))

RemoveConstraint(tableName, columnName, constraint, failAt) ==
  LET error == removeConstraintCheck(db, tableName, columnName) IN
  /\ failAt \in FailPoints(error, 6)
  /\ \E now \in NowInputs :
       Returned("removeConstraint",
                Call(error, removeConstraint(db, tableName, columnName, constraint,
                                             now, failAt)),
                Some(columnName))

RenameColumn(tableName, oldColumnName, newColumnName, failAt) ==
  LET error == renameColumnCheck(db, tableName, oldColumnName, newColumnName) IN
  /\ failAt \in FailPoints(error, 3)
  /\ Returned("renameColumn",
              Call(error, renameColumn(db, tableName, oldColumnName, newColumnName,
                                       failAt)),
              Some(oldColumnName))

\* The row of a record insert that gives every column a value.
NewRow(cols, rowId, payload) ==
  [c \in ColNames(cols) |->
     IF c = NameId THEN MetaCell(rowId)
     ELSE IF c \in {NameCreatedAt, NameUpdatedAt} THEN MetaCell(<<"n">>)
     ELSE DataCell(payload, c)]

InsertRow(tableName, payload) ==
  /\ tableName \in DOMAIN db.phys
  /\ Cardinality(db.phys[tableName].rows) < MaxRows
  /\ LET rowId == RowIds[Cardinality(db.phys[tableName].rows) + 1]
         res == ExecInsertRow(db, tableName,
                              NewRow(db.phys[tableName].cols, rowId, payload))
     IN /\ db' = res.db
        /\ lastOp' = [op |-> "insertRow",
                      outcome |-> IF res.ok THEN "ok" ELSE "failed",
                      began |-> FALSE, column |-> None,
                      error |-> IF res.ok THEN "none" ELSE "storage"]
  /\ observed' = None
  /\ UNCHANGED <<inTransaction, connected, snapshot, flight>>

\* The calls on one table, with failures that leave the transaction open.
Next ==
  \E failAt \in StatementFailures :
    \/ \E input \in TableInputs : CreateTable(input, failAt)
    \/ \E tableName \in TableNameInputs : DeleteTable(tableName, failAt)
    \/ \E i \in AddColumnInputs : AddColumn(i[1], i[2], failAt)
    \/ \E i \in ColumnInputs : DeleteColumn(i[1], i[2], failAt)
    \/ \E i \in UpdateInputs : UpdateColumnMetadata(i[1], i[2], i[3], failAt)
    \/ \E i \in RemoveConstraintInputs : RemoveConstraint(i[1], i[2], i[3], failAt)
    \/ \E i \in RenameColumnInputs : RenameColumn(i[1], i[2], i[3], failAt)
    \/ failAt = 0 /\ \E tableName \in TableNameInputs, p \in Payloads :
                       InsertRow(tableName, p)

Spec == Init /\ [][Next]_vars

(***************************************************************************)
(* The same calls on two tables, t and s, with fewer column inputs.        *)
(***************************************************************************)
TwoTablesNames == { TableT, TableS, TableMissing }

TwoTablesInputs ==
  { TableInput(TableT, <<FieldZero, FieldKey>>), TableInput(TableS, <<FieldPlain>>),
    TableInput(TableS, <<>>), TableInput(TableUser, <<FieldPlain>>),
    TableInput(TableT, <<FieldPlain, FieldPlain>>) }
    \cup { TableInput(TableS, <<FieldPlain, [FieldPlain EXCEPT !.name = n]>>) :
             n \in systemColumns }

TwoTablesAddColumnInputs ==
  { <<TableT, FieldPlain>>, <<TableS, FieldDefaulted>>, <<TableMissing, FieldPlain>> }
    \cup { <<TableS, [FieldPlain EXCEPT !.name = n]>> : n \in systemColumns \cup {NameA} }

TwoTablesColumnInputs ==
  { <<TableS, NameC>>, <<TableS, NameId>>, <<TableT, NameA>>, <<TableMissing, NameA>> }

TwoTablesUpdateInputs ==
  { <<TableS, NameA, Updates(Some(<<"D">>), None)>>,
    <<TableT, NameB, Updates(Some(<<" ">>), None)>>,
    <<TableMissing, NameB, Updates(None, Some(<<"d">>))>> }

TwoTablesRemoveConstraintInputs ==
  { <<TableT, NameB, "unique">>, <<TableS, NameA, "required">>,
    <<TableMissing, NameA, "required">> }

TwoTablesRenameColumnInputs ==
  { <<TableT, NameB, NameC>>, <<TableS, NameA, NameA>>, <<TableMissing, NameA, NameC>> }
    \cup { <<TableT, NameB, n>> : n \in systemColumns }

\* The tables that record inserts go to.
TwoTablesRowInputs == { TableS, TableMissing }

NextTwoTables ==
  \E failAt \in StatementFailures :
    \/ \E input \in TwoTablesInputs : CreateTable(input, failAt)
    \/ \E tableName \in TwoTablesNames : DeleteTable(tableName, failAt)
    \/ \E i \in TwoTablesAddColumnInputs : AddColumn(i[1], i[2], failAt)
    \/ \E i \in TwoTablesColumnInputs : DeleteColumn(i[1], i[2], failAt)
    \/ \E i \in TwoTablesUpdateInputs : UpdateColumnMetadata(i[1], i[2], i[3], failAt)
    \/ \E i \in TwoTablesRemoveConstraintInputs :
         RemoveConstraint(i[1], i[2], i[3], failAt)
    \/ \E i \in TwoTablesRenameColumnInputs : RenameColumn(i[1], i[2], i[3], failAt)
    \/ failAt = 0 /\ \E tableName \in TwoTablesRowInputs, p \in Payloads :
                       InsertRow(tableName, p)

SpecTwoTables == Init /\ [][NextTwoTables]_vars

(***************************************************************************)
(* The calls on one table where a failing statement may also make the      *)
(* engine end the transaction by itself (SQLITE_FULL, SQLITE_IOERR,         *)
(* SQLITE_NOMEM): the ROLLBACK of the catch block then finds no transaction.*)
(***************************************************************************)
NextStorage ==
  \E failAt \in StorageFailures :
    \/ \E input \in TableInputs : CreateTable(input, failAt)
    \/ \E tableName \in TableNameInputs : DeleteTable(tableName, failAt)
    \/ \E i \in AddColumnInputs : AddColumn(i[1], i[2], failAt)
    \/ \E i \in ColumnInputs : DeleteColumn(i[1], i[2], failAt)
    \/ \E i \in UpdateInputs : UpdateColumnMetadata(i[1], i[2], i[3], failAt)
    \/ \E i \in RemoveConstraintInputs : RemoveConstraint(i[1], i[2], i[3], failAt)
    \/ \E i \in RenameColumnInputs : RenameColumn(i[1], i[2], i[3], failAt)
    \/ failAt = 0 /\ \E tableName \in TableNameInputs, p \in Payloads :
                       InsertRow(tableName, p)

SpecStorage == Init /\ [][NextStorage]_vars

(***************************************************************************)
(* The adapter called directly: connect, disconnect, the transaction       *)
(* calls, query and execute, and the DDL methods, in any order.  A caller  *)
(* connects only an adapter that is not connected.                         *)
(***************************************************************************)
\* One statement run on database d.  A record INSERT takes the next row id.
ExecStatement(d, s) ==
  CASE s.kind = "CREATE TABLE" -> ExecCreateTable(d, s.name, s.cols)
    [] s.kind = "DROP TABLE IF EXISTS" -> ExecDropTableIfExists(d, s.name)
    [] s.kind = "DROP TABLE" -> ExecDropTable(d, s.name)
    [] s.kind = "ADD COLUMN" -> ExecAddColumn(d, s.name, s.col)
    [] s.kind = "DROP COLUMN" -> ExecDropColumn(d, s.name, s.column)
    [] s.kind = "RENAME COLUMN" -> ExecRenameColumn(d, s.name, s.column, s.to)
    [] s.kind = "INSERT SELECT" -> ExecCopyRows(d, s.name, s.columns, s.source)
    [] s.kind = "RENAME TO" -> ExecRenameTable(d, s.name, s.to)
    [] s.kind = "INSERT FIELD" -> ExecInsertField(d, s.row)
    [] s.kind = "CLEAR required" -> ExecClearRequired(d, s.tableId, s.column)
    [] s.kind = "CLEAR unique" -> ExecClearUnique(d, s.tableId, s.column)
    [] s.kind = "INSERT" ->
         IF s.name \notin DOMAIN d.phys THEN Failed(d)
         ELSE ExecInsertRow(d, s.name,
                NewRow(d.phys[s.name].cols,
                       RowIds[Cardinality(d.phys[s.name].rows) + 1], s.payload))

RECURSIVE RunStatements(_, _)
\* this.db.run(...) of each statement in turn; the first error is thrown
\* and the statements before it have run.
RunStatements(d, stmts) ==
  IF stmts = <<>> THEN Done(d)
  ELSE LET res == ExecStatement(d, Head(stmts)) IN
       IF res.ok THEN RunStatements(res.db, Tail(stmts)) ELSE Failed(d)

\* A call of one of the DDL methods.
AdapterCall(method, tableName, columnName, newName, constraint, columns) ==
  [method |-> method, tableName |-> tableName, columnName |-> columnName,
   newName |-> newName, constraint |-> constraint, columns |-> columns]

\* The column list of the adapter's createTable: every column definition as
\* in its addColumn, between id and the two time stamps.
AdapterColumns(columns) ==
  <<ColId>> \o [i \in 1..Len(columns) |-> AddedColumn(columns[i])]
  \o <<ColCreatedAt, ColUpdatedAt>>

\* The statements that a DDL method of the adapter runs.
AdapterStatements(call, now) ==
  CASE call.method = "createTable" ->
         << [kind |-> "CREATE TABLE", name |-> call.tableName,
             cols |-> AdapterColumns(call.columns)] >>
    [] call.method = "dropTable" ->
         << [kind |-> "DROP TABLE IF EXISTS", name |-> call.tableName] >>
    [] call.method = "addColumn" ->
         << [kind |-> "ADD COLUMN", name |-> call.tableName,
             col |-> AddedColumn(call.columns[1])] >>
    [] call.method = "dropColumn" ->
         << [kind |-> "DROP COLUMN", name |-> call.tableName,
             column |-> call.columnName] >>
    [] call.method = "renameColumn" ->
         << [kind |-> "RENAME COLUMN", name |-> call.tableName,
             column |-> call.columnName, to |-> call.newName] >>
    [] call.method = "removeConstraint" ->
         LET tempTableName == TempTableName(call.tableName, now) IN
         << [kind |-> "CREATE TABLE", name |-> tempTableName,
             cols |-> RebuildColumns(call.columns, call.columnName,
                        IF call.constraint = "required" THEN "NOT NULL" ELSE "UNIQUE")],
            [kind |-> "INSERT SELECT", name |-> tempTableName,
             columns |-> {NameId}
                           \cup { call.columns[i].name : i \in 1..Len(call.columns) }
                           \cup {NameCreatedAt, NameUpdatedAt},
             source |-> call.tableName],
            [kind |-> "DROP TABLE", name |-> call.tableName],
            [kind |-> "RENAME TO", name |-> tempTableName, to |-> call.tableName] >>

\* The DDL calls and the statements offered to the adapter.
AdapterCalls ==
  { AdapterCall("createTable", TableT, NameA, NameA, "required", <<FieldKey, FieldDefaulted>>),
    AdapterCall("dropTable", TableT, NameA, NameA, "required", <<>>),
    AdapterCall("addColumn", TableT, NameA, NameA, "required", <<FieldPlain>>),
    AdapterCall("dropColumn", TableT, NameA, NameA, "required", <<>>),
    AdapterCall("renameColumn", TableT, NameA, NameC, "required", <<>>),
    AdapterCall("removeConstraint", TableT, NameB, NameB, "required",
                <<FieldKey, FieldDefaulted>>) }

ExecuteInputs ==
  << [kind |-> "INSERT", name |-> TableT, payload |-> <<"x">>],
     [kind |-> "DROP TABLE", name |-> TableT] >>

\* What a call of the adapter leaves in lastOp.
AdapterReturn(op, error) ==
  [op |-> op, outcome |-> IF error = "none" THEN "ok" ELSE "failed",
   began |-> FALSE, column |-> None, error |-> error]

\* A call that throws and has changed nothing.
AdapterThrows(op, error) ==
  /\ lastOp' = AdapterReturn(op, error)
  /\ UNCHANGED <<db, inTransaction, connected, snapshot, flight, observed>>

connect ==
  /\ ~connected
  /\ connected' = TRUE
  /\ lastOp' = AdapterReturn("connect", "none")
  /\ UNCHANGED <<db, inTransaction, snapshot, flight, observed>>

\* close() ends the connection; the engine rolls an open transaction back.
disconnect ==
  /\ lastOp' = AdapterReturn("disconnect", "none")
  /\ IF connected
     THEN /\ connected' = FALSE
          /\ db' = IF IsSome(snapshot) THEN Val(snapshot) ELSE db
          /\ snapshot' = None
          /\ UNCHANGED <<inTransaction, flight, observed>>
     ELSE UNCHANGED <<db, inTransaction, connected, snapshot, flight, observed>>

\* query(sql) with a SELECT of the rows of tableName, and the two methods
\* that go through it: tableExists and getTableSchema (PRAGMA table_info
\* answers with no rows for a table that does not exist).
query(method, tableName) ==
  IF ~connected THEN AdapterThrows(method, "not_connected")
  ELSE IF method = "query" /\ tableName \notin DOMAIN db.phys
  THEN AdapterThrows(method, "storage")
  ELSE
    /\ lastOp' = AdapterReturn(method, "none")
    /\ observed' =
         Some([op |-> method, tableName |-> tableName,
               exists |-> tableExists(db, tableName),
               cols |-> IF tableName \in DOMAIN db.phys
                        THEN db.phys[tableName].cols ELSE <<>>,
               rows |-> IF method = "query" THEN db.phys[tableName].rows ELSE {}])
    /\ UNCHANGED <<db, inTransaction, connected, snapshot, flight>>

\* execute(sql): the statement runs in the open transaction, or commits by
\* itself when there is none.  The engine fails it (failAt = 1), or fails
\* it and ends the open transaction (failAt = -1).
execute(stmt, failAt) ==
  IF ~connected THEN AdapterThrows("execute", "not_connected")
  ELSE
    LET res == ExecStatement(db, stmt) IN
    IF failAt = 0 /\ res.ok
    THEN /\ db' = res.db
         /\ lastOp' = AdapterReturn("execute", "none")
         /\ UNCHANGED <<inTransaction, connected, snapshot, flight, observed>>
    ELSE IF Aborts(failAt) /\ IsSome(snapshot)
    THEN /\ db' = Val(snapshot)
         /\ snapshot' = None
         /\ lastOp' = AdapterReturn("execute", "storage")
         /\ UNCHANGED <<inTransaction, connected, flight, observed>>
    ELSE AdapterThrows("execute", "storage")

\* A beginTransaction that starts over when a transaction is open.
beginTransactionStacking ==
  IF ~connected THEN AdapterThrows("beginTransaction", "not_connected")
  ELSE /\ snapshot' = Some(db)
       /\ inTransaction' = TRUE
       /\ lastOp' = AdapterReturn("beginTransaction", "none")
       /\ UNCHANGED <<db, connected, flight, observed>>

beginTransaction ==
  IF ~connected THEN AdapterThrows("beginTransaction", "not_connected")
  ELSE IF inTransaction THEN AdapterThrows("beginTransaction", "transaction_state")
  ELSE IF IsSome(snapshot) THEN AdapterThrows("beginTransaction", "storage")
  ELSE /\ snapshot' = Some(db)
       /\ inTransaction' = TRUE
       /\ lastOp' = AdapterReturn("beginTransaction", "none")
       /\ UNCHANGED <<db, connected, flight, observed>>

\* commit(): COMMIT, then the flag.  COMMIT fails when the engine has no
\* transaction, or for a reason of the engine's own (failAt as in execute).
commit(failAt) ==
  IF ~connected THEN AdapterThrows("commit", "not_connected")
  ELSE IF ~inTransaction THEN AdapterThrows("commit", "transaction_state")
  ELSE IF ~IsSome(snapshot) THEN AdapterThrows("commit", "storage")
  ELSE IF failAt = 0
  THEN /\ db' = Commit(Val(snapshot), db)
       /\ snapshot' = None
       /\ inTransaction' = FALSE
       /\ lastOp' = AdapterReturn("commit", "none")
       /\ UNCHANGED <<connected, flight, observed>>
  ELSE IF Aborts(failAt)
  THEN /\ db' = Val(snapshot)
       /\ snapshot' = None
       /\ lastOp' = AdapterReturn("commit", "storage")
       /\ UNCHANGED <<inTransaction, connected, flight, observed>>
  ELSE AdapterThrows("commit", "storage")

\* rollback(): ROLLBACK, then the flag.
rollback ==
  IF ~connected THEN AdapterThrows("rollback", "not_connected")
  ELSE IF ~inTransaction THEN AdapterThrows("rollback", "transaction_state")
  ELSE IF ~IsSome(snapshot) THEN AdapterThrows("rollback", "storage")
  ELSE /\ db' = Rollback(Val(snapshot), db)
       /\ snapshot' = None
       /\ inTransaction' = FALSE
       /\ lastOp' = AdapterReturn("rollback", "none")
       /\ UNCHANGED <<connected, flight, observed>>

\* DDL methods without the check of the handle.
AdapterDDLWithoutConnectionCheck(call, now) ==
  LET res == RunStatements(db, AdapterStatements(call, now)) IN
  /\ db' = res.db
  /\ lastOp' = AdapterReturn(call.method, IF res.ok THEN "none" ELSE "storage")
  /\ UNCHANGED <<inTransaction, connected, snapshot, flight, observed>>

\* createTable, dropTable, addColumn, dropColumn, renameColumn and
\* removeConstraint of the adapter: this.db.run of their statements.
AdapterDDL(call, now) ==
  IF ~connected THEN AdapterThrows(call.method, "not_connected")
  ELSE
    LET res == RunStatements(db, AdapterStatements(call, now)) IN
    /\ db' = res.db
    /\ lastOp' = AdapterReturn(call.method, IF res.ok THEN "none" ELSE "storage")
    /\ UNCHANGED <<inTransaction, connected, snapshot, flight, observed>>

NextAdapter ==
  \/ connect
  \/ disconnect
  \/ \E method \in {"query", "tableExists", "getTableSchema"} :
       \E tableName \in TableNameInputs : query(method, tableName)
  \/ \E i \in 1..Len(ExecuteInputs), failAt \in {0, 1, 0 - 1} :
       /\ ExecuteInputs[i].kind = "INSERT" /\ ExecuteInputs[i].name \in DOMAIN db.phys =>
            Cardinality(db.phys[ExecuteInputs[i].name].rows) < MaxRows
       /\ execute(ExecuteInputs[i], failAt)
  \/ beginTransaction
  \/ \E failAt \in {0, 1, 0 - 1} : commit(failAt)
  \/ rollback
  \/ \E call \in AdapterCalls, now \in NowInputs : AdapterDDL(call, now)

SpecAdapter == Init /\ [][NextAdapter]_vars

(***************************************************************************)
(* Concurrent tasks on the one adapter.  A task runs until its next await; *)
(* every query() and execute() is awaited, so between two statements of a  *)
(* schema call other tasks run their own calls on the same connection.     *)
(* The schema call in flight is an addColumn or a removeConstraint that    *)
(* has passed its checks and opened its transaction; the other tasks read  *)
(* (getTable, getTables, getTableSchema, DataService.get), insert records  *)
(* and make schema calls of their own from start to end.  A statement      *)
(* that fails here leaves the transaction open; the failures on which the  *)
(* engine ends it are those of SpecStorage.                                *)
(***************************************************************************)
\* The locals of an addColumn that has opened its transaction on database d.
\* base is the database it found, done the number of its execute() calls
\* that have returned, failed whether one has thrown.
AddColumnFlight(d, tableName, fieldDefinition) ==
  LET table == Val(getTable(d, tableName)) IN
  [op |-> "addColumn", tableName |-> tableName, tableId |-> table.id,
   column |-> fieldDefinition.name, field |-> Some(fieldDefinition),
   sortOrder |-> Len(table.fields), constraint |-> "none", now |-> <<>>,
   fields |-> <<>>, base |-> d, done |-> 0, failed |-> FALSE]

\* The locals of a removeConstraint that has opened its transaction.
\* fields is table.fields as rebuildTableWithoutConstraint reads it again.
RemoveConstraintFlight(d, tableName, columnName, constraint, now) ==
  LET table == Val(getTable(d, tableName)) IN
  [op |-> "removeConstraint", tableName |-> tableName, tableId |-> table.id,
   column |-> columnName, field |-> None,
   sortOrder |-> 0, constraint |-> constraint, now |-> now,
   fields |-> <<>>, base |-> d, done |-> 0, failed |-> FALSE]

\* The number of execute() calls of the try block.
FlightLength(f) == IF f.op = "addColumn" THEN 2 ELSE 5

\* table.fields of the rebuild: read from d before CREATE TABLE, kept after.
FlightFields(d, f) ==
  IF f.op = "removeConstraint" /\ f.done = 1
  THEN IF IsSome(getTable(d, f.tableName))
       THEN Val(getTable(d, f.tableName)).fields ELSE <<>>
  ELSE f.fields

\* The next statement of the call in flight on database d.
FlightStatement(d, f) ==
  LET tempTableName == TempTableName(f.tableName, f.now)
      fields == FlightFields(d, f)
  IN
  IF f.op = "addColumn"
  THEN IF f.done = 0
       THEN [kind |-> "INSERT FIELD",
             row |-> FieldRow(f.tableId, Val(f.field), f.sortOrder)]
       ELSE [kind |-> "ADD COLUMN", name |-> f.tableName,
             col |-> AddedColumn(Val(f.field))]
  ELSE CASE f.done = 0 ->
              [kind |-> IF f.constraint = "required"
                        THEN "CLEAR required" ELSE "CLEAR unique",
               tableId |-> f.tableId, column |-> f.column]
         [] f.done = 1 ->
              [kind |-> "CREATE TABLE", name |-> tempTableName,
               cols |-> RebuildColumns(fields, f.column,
                                       IF f.constraint = "required"
                                       THEN "NOT NULL" ELSE "UNIQUE")]
         [] f.done = 2 ->
              [kind |-> "INSERT SELECT", name |-> tempTableName,
               columns |-> {NameId} \cup { fields[i].name : i \in 1..Len(fields) }
                             \cup {NameCreatedAt, NameUpdatedAt},
               source |-> f.tableName]
         [] f.done = 3 -> [kind |-> "DROP TABLE", name |-> f.tableName]
         [] OTHER -> [kind |-> "RENAME TO", name |-> tempTableName,
                      to |-> f.tableName]

\* addColumn up to its beginTransaction.
StartAddColumn(tableName, fieldDefinition) ==
  /\ connected /\ ~inTransaction /\ ~IsSome(snapshot) /\ ~IsSome(flight)
  /\ addColumnCheck(db, tableName, fieldDefinition) = "none"
  /\ FieldCount(tableName) < MaxFields
  /\ flight' = Some(AddColumnFlight(db, tableName, fieldDefinition))
  /\ snapshot' = Some(db)
  /\ inTransaction' = TRUE
  /\ observed' = None
  /\ UNCHANGED <<db, lastOp, connected>>

\* removeConstraint up to its beginTransaction.
StartRemoveConstraint(tableName, columnName, constraint, now) ==
  /\ connected /\ ~inTransaction /\ ~IsSome(snapshot) /\ ~IsSome(flight)
  /\ removeConstraintCheck(db, tableName, columnName) = "none"
  /\ flight' = Some(RemoveConstraintFlight(db, tableName, columnName, constraint, now))
  /\ snapshot' = Some(db)
  /\ inTransaction' = TRUE
  /\ observed' = None
  /\ UNCHANGED <<db, lastOp, connected>>

\* The next execute() of the call in flight: it goes through, or throws
\* and leaves the transaction open (fail, or a statement SQLite refuses).
FlightStep(fail) ==
  /\ IsSome(flight)
  /\ LET f == Val(flight)
         res == ExecStatement(db, FlightStatement(db, f))
     IN /\ ~f.failed /\ f.done < FlightLength(f)
        /\ IF ~fail /\ res.ok
           THEN /\ db' = res.db
                /\ flight' = Some([f EXCEPT !.done = f.done + 1,
                                            !.fields = FlightFields(db, f)])
                /\ observed' = None
           ELSE /\ flight' = Some([f EXCEPT !.failed = TRUE])
                /\ UNCHANGED <<db, observed>>
  /\ UNCHANGED <<inTransaction, lastOp, connected, snapshot>>

\* commit() of the call in flight and its return, or a COMMIT that throws.
FlightCommit(fail) ==
  /\ IsSome(flight)
  /\ LET f == Val(flight) IN
     /\ ~f.failed /\ f.done = FlightLength(f)
     /\ IF ~fail
        THEN /\ db' = Commit(Val(snapshot), db)
             /\ snapshot' = None
             /\ inTransaction' = FALSE
             /\ flight' = None
             /\ lastOp' = [op |-> f.op, outcome |-> "ok", began |-> TRUE,
                           column |-> Some(f.column), error |-> "none"]
             /\ observed' = None
        ELSE /\ flight' = Some([f EXCEPT !.failed = TRUE])
             /\ UNCHANGED <<db, snapshot, inTransaction, lastOp, observed>>
  /\ UNCHANGED connected

\* The catch block of the call in flight: rollback(), then throw.
FlightRollback ==
  /\ IsSome(flight)
  /\ LET f == Val(flight) IN
     /\ f.failed
     /\ flight' = None
     /\ db' = Rollback(Val(snapshot), db)
     /\ snapshot' = None
     /\ inTransaction' = FALSE
     /\ lastOp' = [op |-> f.op, outcome |-> "failed", began |-> TRUE,
                   column |-> None, error |-> "storage"]
  /\ observed' = None
  /\ UNCHANGED connected

\* getTables(): the rows of _spinekit_tables, each with its fields.  The
\* list is ordered by created_at, which the catalog rows here do not
\* carry; the result is kept as the set of its elements.
getTables(d) == { Val(getTable(d, r.name)) : r \in d.tables }

\* What a read leaves in observed: during is whether a schema call was in
\* flight when the read ran.
Observation(op, tableName, result) ==
  Some([op |-> op, tableName |-> tableName, result |-> result,
        during |-> IsSome(flight)])

\* Another task's getTable(tableName).
GetTable(tableName) ==
  /\ connected
  /\ observed' = Observation("getTable", tableName, getTable(db, tableName))
  /\ UNCHANGED <<db, inTransaction, lastOp, connected, snapshot, flight>>

\* Another task's getTables().
GetTables ==
  /\ connected
  /\ observed' = Observation("getTables", <<>>, getTables(db))
  /\ UNCHANGED <<db, inTransaction, lastOp, connected, snapshot, flight>>

\* Another task's read of the physical schema: getTableSchema(tableName),
\* the columns of PRAGMA table_info (none for a table that does not exist).
GetTableSchema(tableName) ==
  /\ connected
  /\ observed' = Observation("getTableSchema", tableName,
                             IF tableName \in DOMAIN db.phys
                             THEN db.phys[tableName].cols ELSE <<>>)
  /\ UNCHANGED <<db, inTransaction, lastOp, connected, snapshot, flight>>

\* DataService.get(tableName, id) on database d: validateTableExists
\* throws for a table that does not exist, result[0] || null otherwise.
get(d, tableName, id) ==
  IF ~tableExists(d, tableName) THEN [outcome |-> "failed", record |-> None]
  ELSE LET result == { r \in d.phys[tableName].rows : r[NameId] = MetaCell(id) }
       IN [outcome |-> "ok",
           record |-> IF result = {} THEN None
                      ELSE Some(CHOOSE r \in result : TRUE)]

\* Another task's DataService.get(tableName, id).
Get(tableName, id) ==
  /\ connected
  /\ observed' = Observation("get", tableName, get(db, tableName, id))
  /\ UNCHANGED <<db, inTransaction, lastOp, connected, snapshot, flight>>

\* The calls that start a schema call in flight.
FlightAddColumnInputs == { <<TableT, FieldDefaulted>>, <<TableT, FieldPlain>> }

FlightRemoveConstraintInputs ==
  { <<TableT, NameB, "required">>, <<TableT, NameB, "unique">> }

\* The tables the other tasks create.
TasksTableInputs ==
  { TableInput(TableT, <<FieldKey>>), TableInput(TableT, <<FieldZero, FieldKey>>) }

NextTasks ==
  \/ \E input \in TasksTableInputs : CreateTable(input, 0)
  \/ \E i \in FlightAddColumnInputs : StartAddColumn(i[1], i[2])
  \/ \E i \in FlightRemoveConstraintInputs, now \in NowInputs :
       StartRemoveConstraint(i[1], i[2], i[3], now)
  \/ \E fail \in BOOLEAN : FlightStep(fail)
  \/ \E fail \in BOOLEAN : FlightCommit(fail)
  \/ FlightRollback
  \/ AddColumn(TableT, FieldPlain, 0)
  \/ RemoveConstraint(TableT, NameB, "required", 0)
  \/ \E p \in Payloads :
       TableT \in DOMAIN db.phys /\ db.phys[TableT].rows = {} /\ InsertRow(TableT, p)
  \/ \E tableName \in TableNameInputs : GetTable(tableName)
  \/ GetTables
  \/ GetTableSchema(TableT)
  \/ Get(TableT, RowIds[1])

SpecTasks == Init /\ [][NextTasks]_vars

(***************************************************************************)
(* Data Service: list.  The options are sortBy (None when not given) and   *)
(* filters, a function from the keys given to the values asked for.  The   *)
(* page is the default one, which holds every row of the model.            *)
(***************************************************************************)
ListOptions(sortBy, filters) == [sortBy |-> sortBy, filters |-> filters]

\* options.sortBy || "created_at"
SortByOrDefault(options) ==
  IF IsSome(options.sortBy) /\ Val(options.sortBy) # <<>>
  THEN Val(options.sortBy) ELSE NameCreatedAt

\* A list that hands sortBy and filters to SQL as they came.
needsColumnValidationNever(sortBy, filters) == FALSE

needsColumnValidation(sortBy, filters) ==
  DOMAIN filters # {} \/ sortBy # NameCreatedAt

\* columns.map((col) => col.name) of getTableSchema
getValidColumnNames(d, tableName) ==
  IF tableName \in DOMAIN d.phys THEN ColNames(d.phys[tableName].cols) ELSE {}

getSafeColumnName(columnName, validColumnNames, fallback) ==
  IF columnName \in validColumnNames THEN columnName ELSE fallback

filterValidColumns(filters, validColumnNames) ==
  [key \in DOMAIN filters \cap validColumnNames |-> filters[key]]

\* Row r satisfies WHERE key = ? AND ... of buildWhereClause; NULL equals
\* nothing.
Matches(r, filters) ==
  \A key \in DOMAIN filters : r[key] # NullCell /\ r[key].p = filters[key]

\* DataService.list(tableName, options) on database d.  SQLite refuses a
\* statement that names a column the table does not have.
list(d, tableName, options) ==
  LET sortBy == SortByOrDefault(options)
      needs == needsColumnValidation(sortBy, options.filters)
      validColumnNames == getValidColumnNames(d, tableName)
      validSortBy == IF needs
                     THEN getSafeColumnName(sortBy, validColumnNames, NameCreatedAt)
                     ELSE sortBy
      validFilters == IF needs
                      THEN filterValidColumns(options.filters, validColumnNames)
                      ELSE options.filters
  IN
  IF ~tableExists(d, tableName)
  THEN [outcome |-> "failed", error |-> "not_found", options |-> options,
        sortBy |-> <<>>, filters |-> <<>>, data |-> {}, total |-> 0]
  ELSE IF ~(DOMAIN validFilters \cup {validSortBy} \subseteq ColNames(d.phys[tableName].cols))
  THEN [outcome |-> "failed", error |-> "storage", options |-> options,
        sortBy |-> validSortBy, filters |-> validFilters, data |-> {}, total |-> 0]
  ELSE LET data == { r \in d.phys[tableName].rows : Matches(r, validFilters) }
       IN [outcome |-> "ok", error |-> "none", options |-> options,
           sortBy |-> validSortBy, filters |-> validFilters,
           data |-> data, total |-> Cardinality(data)]

\* A task's DataService.list(tableName, options).
List(tableName, options) ==
  /\ connected
  /\ observed' = Observation("list", tableName, list(db, tableName, options))
  /\ UNCHANGED <<db, inTransaction, lastOp, connected, snapshot, flight>>

NameUnknown == <<"z", "z">>

\* A filter on key for value.
Filter(key, value) == [k \in {key} |-> value]

ListInputs ==
  { ListOptions(sortBy, filters) :
      sortBy \in {None, Some(<<>>), Some(NameB), Some(NameC), Some(NameUnknown)},
      filters \in { <<>>, Filter(NameB, <<"x">>), Filter(NameB, <<"y">>),
                    Filter(NameUnknown, <<"x">>),
                    [k \in {NameA, NameB, NameUnknown} |->
                       IF k = NameA THEN <<"x">> ELSE <<"y">>] } }

\* list next to the calls that change the columns of table t.
NextData ==
  \/ CreateTable(TableInput(TableT, <<FieldPlain, FieldKey>>), 0)
  \/ DeleteColumn(TableT, NameB, 0)
  \/ RenameColumn(TableT, NameB, NameC, 0)
  \/ RenameColumn(TableT, NameC, NameB, 0)
  \/ \E p \in Payloads : InsertRow(TableT, p)
  \/ \E tableName \in TableNameInputs, options \in ListInputs : List(tableName, options)

SpecData == Init /\ [][NextData]_vars

(***************************************************************************)
(* removeConstraint on table t beside two other user tables, one of which  *)
(* has the name that the rebuild gives its temporary relation.  Statements *)
(* fail as in SpecStorage.                                                 *)
(***************************************************************************)
TableTemp == TempTableName(TableT, <<"7">>)

RebuildTableInputs ==
  { TableInput(TableT, <<FieldZero, FieldKey>>), TableInput(TableTemp, <<FieldPlain>>),
    TableInput(TableS, <<FieldKey>>) }

RebuildInputs == { <<TableT, NameB, k>> : k \in ConstraintInputs }

NextRebuild ==
  \/ \E input \in RebuildTableInputs : CreateTable(input, 0)
  \/ DeleteTable(TableTemp, 0)
  \/ \E i \in RebuildInputs, failAt \in StorageFailures :
       RemoveConstraint(i[1], i[2], i[3], failAt)
  \/ \E tableName \in {TableT, TableTemp, TableS}, p \in Payloads : InsertRow(tableName, p)

SpecRebuild == Init /\ [][NextRebuild]_vars

(***************************************************************************)
(* createTable, addColumn and deleteColumn alone, on one table, with       *)
(* record inserts and with failures that leave the transaction open.       *)
(***************************************************************************)
FieldsTableInputs ==
  { TableInput(TableT, <<>>), TableInput(TableT, <<FieldPlain>>),
    TableInput(TableT, <<FieldPlain, FieldDefaulted>>) }

FieldsAddColumnInputs == { FieldPlain, FieldDefaulted, FieldZero }

NextFields ==
  \E failAt \in StatementFailures :
    \/ \E input \in FieldsTableInputs : CreateTable(input, failAt)
    \/ \E f \in FieldsAddColumnInputs : AddColumn(TableT, f, failAt)
    \/ \E c \in {NameA, NameC} : DeleteColumn(TableT, c, failAt)
    \/ failAt = 0 /\ \E p \in Payloads : InsertRow(TableT, p)

SpecFields == Init /\ [][NextFields]_vars

(***************************************************************************)
(* Properties.                                                             *)
(***************************************************************************)
\* The calls of the Schema Service that open a transaction.
SchemaOps ==
  { "createTable", "deleteTable", "addColumn", "deleteColumn",
    "updateColumnMetadata", "removeConstraint", "renameColumn" }

\* C1 (atomicity): when a call of createTable, deleteTable, addColumn,
\* deleteColumn, renameColumn or removeConstraint (and likewise
\* updateColumnMetadata) fails after it opened its transaction, the database
\* after the call (catalog rows, physical schema and rows) is the database
\* before the call.
C1_Atomicity ==
  [][(lastOp'.op \in SchemaOps /\ lastOp'.outcome = "failed") => db' = db]_vars

\* A call of addColumn has failed after its catalog INSERT succeeded: at the
\* ALTER TABLE or at the commit.
C1_Witness ==
  /\ lastOp.op = "addColumn"
  /\ lastOp.outcome = "failed"
  /\ \E i \in AddColumnInputs : \E failAt \in 0..3 :
       LET r == addColumn(db, i[1], i[2], failAt)
       IN r.outcome = "failed" /\ r.writes >= 1

\* The names of the catalog fields of the table row r.
FieldNamesOf(d, r) == { f.name : f \in { x \in d.fields : x.table_id = r.id } }

\* C2 (catalog and physical schema correspond): in every state between two
\* calls, a physical table exists for a name exactly when a catalog row
\* exists for it, and its columns are, one each, id, the names of the
\* table's catalog fields, created_at and updated_at.
C2_Correspondence ==
  /\ DOMAIN db.phys = { r.name : r \in db.tables }
  /\ \A r \in db.tables :
       /\ ColNames(db.phys[r.name].cols)
            = {NameId} \cup FieldNamesOf(db, r) \cup {NameCreatedAt, NameUpdatedAt}
       /\ Len(db.phys[r.name].cols) = Cardinality(FieldNamesOf(db, r)) + 3

\* Table t exists and a deleteColumn on it has just committed.
C2_Witness ==
  /\ lastOp.op = "deleteColumn"
  /\ lastOp.outcome = "ok"
  /\ \E r \in db.tables : r.name = TableT /\ FieldNamesOf(db, r) # {}

\* C3 (createTable is all-or-nothing): when createTable does not succeed,
\* whether rejected or failed inside its transaction, no catalog row and no
\* field row carries the id drawn for the table, and the physical tables
\* are the ones that existed before the call.
C3_CreateTableAllOrNothing ==
  [][(lastOp'.op = "createTable" /\ lastOp'.outcome # "ok") =>
       /\ \A r \in db'.tables : r.id # randomUUID(db)
       /\ \A f \in db'.fields : f.table_id # randomUUID(db)
       /\ db'.phys = db.phys]_vars

\* A createTable has failed after its first catalog INSERT succeeded.
C3_Witness ==
  /\ lastOp.op = "createTable"
  /\ lastOp.outcome = "failed"
  /\ \E input \in TableInputs : \E failAt \in 0..(Len(input.fields) + 3) :
       LET r == createTable(db, input, randomUUID(db), failAt)
       IN r.outcome = "failed" /\ r.writes >= 1

\* Field got of getTable carries what the input field f carried.
SameField(got, f) ==
  /\ got.name = f.name
  /\ got.displayName = f.displayName
  /\ got.type = f.type
  /\ got.required = f.required
  /\ got.unique = f.unique
  /\ got.defaultValue = f.defaultValue
  /\ got.description = f.description

\* C4 (createTable then getTable round trip): after a successful
\* createTable(input), getTable(input.name) returns as many fields as the
\* input has, in the input's order, each with the input field's name,
\* displayName, type, required, unique, defaultValue and description.
C4_CreateGetRoundTrip ==
  [][\A input \in TableInputs :
       ( /\ lastOp'.op = "createTable"
         /\ lastOp'.outcome = "ok"
         /\ createTableCheck(db, input) = "none"
         /\ db' = createTable(db, input, randomUUID(db), 0).db ) =>
       LET table == getTable(db', input.name) IN
       /\ IsSome(table)
       /\ Len(Val(table).fields) = Len(input.fields)
       /\ \A k \in 1..Len(input.fields) :
            SameField(Val(table).fields[k], input.fields[k])]_vars

\* The rows of physical table name in d, each cut down to the columns cs.
RowsOn(d, name, cs) ==
  { [c \in cs |-> r[c]] : r \in d.phys[name].rows }

\* C5 (addColumn succeeds on every nullable or defaulted field): for an
\* existing table and a valid field whose name is no field and no system
\* column of it and that is not required or carries a default value,
\* addColumn succeeds; getTable then lists the field with its displayName,
\* type, required flag and defaultValue after the fields listed before,
\* which are unchanged; and the physical table holds as many rows, with the
\* values they had in the columns that existed.
C5_AddColumnSucceeds ==
  \A i \in AddColumnInputs :
    LET table == getTable(db, i[1])
        f == i[2]
    IN ( /\ IsSome(table)
         /\ fieldDefinitionSchema(f)
         /\ ~HasField(Val(table), f.name)
         /\ f.name \notin systemColumns
         /\ (~f.required \/ IsSome(f.defaultValue)) ) =>
       LET r == addColumn(db, i[1], f, 0)
           after == getTable(r.db, i[1])
           before == ColNames(db.phys[i[1]].cols)
       IN /\ r.outcome = "ok"
          /\ IsSome(after)
          /\ HasField(Val(after), f.name)
          /\ FindField(Val(after), f.name).displayName = f.displayName
          /\ FindField(Val(after), f.name).type = f.type
          /\ FindField(Val(after), f.name).required = f.required
          /\ FindField(Val(after), f.name).defaultValue = f.defaultValue
          /\ \A k \in 1..Len(Val(table).fields) :
               \E m \in 1..Len(Val(after).fields) :
                 Val(after).fields[m] = Val(table).fields[k]
          /\ Cardinality(r.db.phys[i[1]].rows) = Cardinality(db.phys[i[1]].rows)
          /\ RowsOn(r.db, i[1], before) = RowsOn(db, i[1], before)

\* C6 (addColumn validation): addColumn of a valid field whose name is a
\* field of the table, or that is required and carries no default value,
\* is rejected with a validation error before beginTransaction: nothing is
\* written and the database, hence the field list of getTable, is unchanged.
C6_AddColumnRejects ==
  \A i \in AddColumnInputs :
    LET table == getTable(db, i[1])
        f == i[2]
    IN ( /\ IsSome(table)
         /\ fieldDefinitionSchema(f)
         /\ (HasField(Val(table), f.name) \/ (f.required /\ ~IsSome(f.defaultValue))) ) =>
       \A failAt \in 0..3 :
         LET r == addColumn(db, i[1], f, failAt)
         IN /\ r.outcome = "rejected"
            /\ r.error \in { "column_exists", "required_without_default" }
            /\ ~r.began
            /\ r.writes = 0
            /\ r.db = db
            /\ getTable(r.db, i[1]) = table

\* An addColumn has just been rejected in a state in which a field of that
\* name exists (FieldPlain) and a required field without default (FieldKey)
\* is offered: either call leads to this state.
C6_Witness ==
  /\ lastOp.op = "addColumn"
  /\ lastOp.outcome = "rejected"
  /\ addColumnCheck(db, TableT, FieldPlain) = "column_exists"
  /\ addColumnCheck(db, TableT, FieldKey) = "required_without_default"

\* Column c is a field of table tableName in d.
IsField(d, tableName, c) ==
  IsSome(getTable(d, tableName)) /\ HasField(Val(getTable(d, tableName)), c)

\* The sequence seq without the fields named c.
RECURSIVE WithoutField(_, _)
WithoutField(seq, c) ==
  IF seq = <<>> THEN <<>>
  ELSE IF Head(seq).name = c THEN WithoutField(Tail(seq), c)
  ELSE <<Head(seq)>> \o WithoutField(Tail(seq), c)

\* What a committed deleteColumn(tableName, c) has done between d and d2:
\* c is gone from the field list, from the physical columns and from every
\* row; the other fields are as they were, in their order; the rows are
\* as many and hold what they held in the other columns.
DeleteColumnDone(d, d2, tableName, c) ==
  LET before == Val(getTable(d, tableName))
      kept == ColNames(d.phys[tableName].cols) \ {c}
  IN /\ IsSome(getTable(d2, tableName))
     /\ ~HasField(Val(getTable(d2, tableName)), c)
     /\ Val(getTable(d2, tableName)).fields = WithoutField(before.fields, c)
     /\ c \notin ColNames(d2.phys[tableName].cols)
     /\ \A r \in d2.phys[tableName].rows : DOMAIN r = kept
     /\ Cardinality(d2.phys[tableName].rows) = Cardinality(d.phys[tableName].rows)
     /\ d2.phys[tableName].rows = RowsOn(d, tableName, kept)

\* The step is a committed deleteColumn and has done what C7 says of it.
DeleteColumnStep ==
  (lastOp'.op = "deleteColumn" /\ lastOp'.outcome = "ok") =>
    \A i \in ColumnInputs :
      (lastOp'.column = Some(i[2]) /\ deleteColumnCheck(db, i[1], i[2]) = "none") =>
        DeleteColumnDone(db, db', i[1], i[2])

\* The step changes the catalog, of which the field lists are a function.
CatalogChanged == db'.tables # db.tables \/ db'.fields # db.fields

\* C7 as stated (deleteColumn is irreversible): a committed
\* deleteColumn(T, c) removes c from getTable(T).fields and from every row
\* and leaves the other fields, the other column values and the row count
\* as they were; and a column that is no field of the existing table T,
\* as c is from then on, becomes a field of T by an addColumn only.
C7_AsStated ==
  [][/\ DeleteColumnStep
     /\ \A c \in FieldNameInputs :
          ( /\ CatalogChanged
            /\ IsSome(getTable(db, TableT))
            /\ ~IsField(db, TableT, c)
            /\ IsField(db', TableT, c) ) =>
          lastOp'.op = "addColumn"]_vars

\* C7 (amended): as C7_AsStated, but a column that is no field of T becomes
\* one by a committed addColumn of that column, by a committed renameColumn
\* of another field to that name, or, when T does not exist, by a
\* createTable whose input lists it.
C7_DeleteColumn ==
  [][/\ DeleteColumnStep
     /\ \A c \in FieldNameInputs :
          (CatalogChanged /\ ~IsField(db, TableT, c) /\ IsField(db', TableT, c)) =>
            /\ lastOp'.outcome = "ok"
            /\ \/ lastOp'.op = "addColumn" /\ lastOp'.column = Some(c)
               \/ /\ lastOp'.op = "renameColumn"
                  /\ lastOp'.column # Some(c)
                  /\ IsField(db, TableT, Val(lastOp'.column))
                  /\ ~IsField(db', TableT, Val(lastOp'.column))
               \/ lastOp'.op = "createTable" /\ ~IsSome(getTable(db, TableT))]_vars

\* A deleteColumn has just committed on a table that holds a row.
C7_Witness ==
  /\ lastOp.op = "deleteColumn"
  /\ lastOp.outcome = "ok"
  /\ TableT \in DOMAIN db.phys
  /\ db.phys[TableT].rows # {}

\* C8 (deleteColumn validation): deleteColumn of id, created_at or
\* updated_at, or of a name that is no field of the existing table, is
\* rejected before beginTransaction: nothing is written and catalog and
\* physical schema are unchanged.
C8_DeleteColumnRejects ==
  \A i \in ColumnInputs :
    LET table == getTable(db, i[1]) IN
    (IsSome(table) /\ (i[2] \in systemColumns \/ ~HasField(Val(table), i[2]))) =>
      \A failAt \in 0..3 :
        LET r == deleteColumn(db, i[1], i[2], failAt)
        IN /\ r.outcome = "rejected"
           /\ r.error \in { "system_column", "column_not_found" }
           /\ ~r.began
           /\ r.writes = 0
           /\ r.db = db

\* A deleteColumn has just been rejected in a state in which the table
\* exists and has no field a: deleteColumn(t, id) and deleteColumn(t, a)
\* both lead to this state.
C8_Witness ==
  /\ lastOp.op = "deleteColumn"
  /\ lastOp.outcome = "rejected"
  /\ deleteColumnCheck(db, TableT, NameId) = "system_column"
  /\ deleteColumnCheck(db, TableT, NameA) = "column_not_found"

\* The index of the field named c in the field list of table.
FieldIndex(table, c) ==
  CHOOSE k \in 1..Len(table.fields) : table.fields[k].name = c

\* C9 (renameColumn preserves data and definition): after a committed
\* renameColumn(T, old, new) with old different from the trimmed new, every
\* row holds under new what it held under old and holds the other columns
\* unchanged; old is no field of getTable(T) and no physical column; and
\* the field keeps its displayName, type, required flag, unique flag,
\* default value and its position in the field list.
C9_RenamePreserves ==
  [][(lastOp'.op = "renameColumn" /\ lastOp'.outcome = "ok") =>
       \A i \in RenameColumnInputs :
         ( /\ lastOp'.column = Some(i[2])
           /\ renameColumnCheck(db, i[1], i[2], i[3]) = "none" ) =>
         LET old == i[2]
             new == Trim(i[3])
             before == Val(getTable(db, i[1]))
             after == Val(getTable(db', i[1]))
             others == ColNames(db.phys[i[1]].cols) \ {old}
         IN /\ db'.phys[i[1]].rows =
                 { [c \in others \cup {new} |-> IF c = new THEN r[old] ELSE r[c]] :
                     r \in db.phys[i[1]].rows }
            /\ ~HasField(after, old)
            /\ old \notin ColNames(db'.phys[i[1]].cols)
            /\ HasField(after, new)
            /\ FindField(after, new) = [FindField(before, old) EXCEPT !.name = new]
            /\ FieldIndex(after, new) = FieldIndex(before, old)]_vars

\* C10 (renameColumn validation): renameColumn on an existing table is
\* rejected before beginTransaction, with nothing written and catalog and
\* physical schema unchanged, when the source is id, created_at or
\* updated_at, when the source is no field, when the new name is empty or
\* blank, when the trimmed new name is no identifier, when it is a system
\* column name, and when it is the name of another field.
C10_RenameColumnRejects ==
  \A i \in RenameColumnInputs :
    LET table == getTable(db, i[1])
        old == i[2]
        new == Trim(i[3])
    IN ( /\ IsSome(table)
         /\ \/ old \in systemColumns
            \/ ~HasField(Val(table), old)
            \/ new = <<>>
            \/ ~identifierRegex(new)
            \/ new \in systemColumns
            \/ (new # old /\ HasField(Val(table), new)) ) =>
       \A failAt \in 0..3 :
         LET r == renameColumn(db, i[1], i[2], i[3], failAt)
         IN /\ r.outcome = "rejected"
            /\ r.error \in { "system_column", "column_not_found", "empty_name",
                              "invalid_identifier", "system_column_name",
                              "column_exists" }
            /\ ~r.began
            /\ r.writes = 0
            /\ r.db = db

\* A renameColumn has just been rejected in a state in which each of the
\* six reasons rejects one of the offered calls: any of them leads to this
\* state.
C10_Witness ==
  /\ lastOp.op = "renameColumn"
  /\ lastOp.outcome = "rejected"
  /\ renameColumnCheck(db, TableT, NameId, NameC) = "system_column"
  /\ renameColumnCheck(db, TableT, NameA, NameC) = "column_not_found"
  /\ renameColumnCheck(db, TableT, NameB, <<" ">>) = "empty_name"
  /\ renameColumnCheck(db, TableT, NameB, <<"a", "-">>) = "invalid_identifier"
  /\ renameColumnCheck(db, TableT, NameB, NameId) = "system_column_name"
  /\ renameColumnCheck(db, TableT, NameB, NameC) = "column_exists"

\* The new names that trim to the name x.
TrimsTo(x) == { x, <<" ">> \o x, x \o <<" ">>, <<" ">> \o x \o <<" ", " ">> }

\* C11 (renameColumn to the same name is a no-op): renameColumn(T, X, Y) with
\* X a field of T and Y trimmed equal to X returns without error, opens no
\* transaction, writes nothing and leaves the database, hence the field
\* list of getTable and the physical table, as it was.
C11_RenameNoOp ==
  \A x \in FieldNameInputs : \A y \in TrimsTo(x) :
    IsField(db, TableT, x) =>
      \A failAt \in 0..3 :
        LET r == renameColumn(db, TableT, x, y, failAt)
        IN /\ r.outcome = "noop"
           /\ r.error = "none"
           /\ ~r.began
           /\ r.writes = 0
           /\ r.db = db
           /\ getTable(r.db, TableT) = getTable(db, TableT)
           /\ r.db.phys[TableT] = db.phys[TableT]

\* A renameColumn(t, c, c) has just returned by the early return, on a table
\* that has the field c and holds a row.
C11_Witness ==
  /\ lastOp.op = "renameColumn"
  /\ lastOp.outcome = "noop"
  /\ IsField(db, TableT, NameC)
  /\ db.phys[TableT].rows # {}

\* A row of relation rel that no row of it equals in any column.
FreshRow(rel) == NewRow(rel.cols, RowIds[Len(RowIds)], <<"y">>)

\* Relation rel takes a row that holds NULL in column c.
AcceptsNull(rel, c) ==
  RowAccepted(rel.cols, rel.rows, [FreshRow(rel) EXCEPT ![c] = NullCell])

\* Relation rel takes a row that repeats, in column c, the value of any row
\* it holds.
PermitsDuplicates(rel, c) ==
  /\ ~ColByName(rel.cols, c).unique
  /\ \A r \in rel.rows :
       RowAccepted(rel.cols, rel.rows, [FreshRow(rel) EXCEPT ![c] = r[c]])

\* C12 (removeConstraint removes the constraint): after a successful
\* removeConstraint(T, c, required) the catalog field c is not required and
\* the physical column takes NULL; after a successful
\* removeConstraint(T, c, unique) the catalog field is not unique and the
\* physical column takes duplicate values; the other constraint of the
\* column is, in the catalog and physically, what it was.
C12_RemoveConstraint ==
  \A i \in RemoveConstraintInputs : \A now \in NowInputs :
    LET r == removeConstraint(db, i[1], i[2], i[3], now, 0) IN
    r.outcome = "ok" =>
      LET c == i[2]
          before == FindField(Val(getTable(db, i[1])), c)
          after == FindField(Val(getTable(r.db, i[1])), c)
          colBefore == ColByName(db.phys[i[1]].cols, c)
          colAfter == ColByName(r.db.phys[i[1]].cols, c)
      IN IF i[3] = "required"
         THEN /\ ~after.required
              /\ ~colAfter.notnull
              /\ AcceptsNull(r.db.phys[i[1]], c)
              /\ after.unique = before.unique
              /\ colAfter.unique = colBefore.unique
         ELSE /\ ~after.unique
              /\ PermitsDuplicates(r.db.phys[i[1]], c)
              /\ after.required = before.required
              /\ colAfter.notnull = colBefore.notnull

\* A removeConstraint(t, b, required) has just committed on a table that
\* holds a row: field b is no longer required and still unique.
C12_Witness ==
  /\ lastOp.op = "removeConstraint"
  /\ lastOp.outcome = "ok"
  /\ lastOp.column = Some(NameB)
  /\ IsField(db, TableT, NameB)
  /\ ~FindField(Val(getTable(db, TableT)), NameB).required
  /\ FindField(Val(getTable(db, TableT)), NameB).unique
  /\ db.phys[TableT].rows # {}

\* C13 (the rebuild keeps the rows): after a successful removeConstraint the
\* physical table holds the rows it held, each with the value it had in id,
\* in every field column, in created_at and in updated_at, whatever the
\* order of the columns; and the original relation is dropped by the fourth
\* statement of the transaction, when the temporary relation holds all its
\* rows: the transaction stopped at that statement has the original and the
\* full copy, the transaction stopped at the next has the copy only.
C13_RebuildKeepsRows ==
  \A i \in RemoveConstraintInputs : \A now \in NowInputs :
    LET r == removeConstraint(db, i[1], i[2], i[3], now, 0) IN
    r.outcome = "ok" =>
      LET temp == TempTableName(i[1], now)
          atDrop == removeConstraintTry(db, i[1], i[2], i[3], now, 4)
          atRename == removeConstraintTry(db, i[1], i[2], i[3], now, 5)
      IN /\ r.db.phys[i[1]].rows = db.phys[i[1]].rows
         /\ Cardinality(r.db.phys[i[1]].rows) = Cardinality(db.phys[i[1]].rows)
         /\ atDrop.n = 3
         /\ i[1] \in DOMAIN atDrop.db.phys
         /\ temp \in DOMAIN atDrop.db.phys
         /\ atDrop.db.phys[temp].rows = db.phys[i[1]].rows
         /\ atRename.n = 4
         /\ i[1] \notin DOMAIN atRename.db.phys
         /\ atRename.db.phys[temp].rows = db.phys[i[1]].rows

\* A removeConstraint has just committed on a table that holds a row whose
\* value in c was filled in by the ADD COLUMN that appended c behind
\* updated_at: the rebuild met a column order that is not the catalog's.
C13_Witness ==
  /\ lastOp.op = "removeConstraint"
  /\ lastOp.outcome = "ok"
  /\ IsField(db, TableT, NameC)
  /\ \E row \in db.phys[TableT].rows : row[NameC].src = "default"

\* C14 (the rebuild changes the removed constraint only): after a successful
\* removeConstraint(T, c, k) every column of T other than c has the type,
\* the NOT NULL and UNIQUE constraints, the primary key and the DEFAULT it
\* had, and c has the type and the DEFAULT it had.
C14_RebuildFrame ==
  \A i \in RemoveConstraintInputs : \A now \in NowInputs :
    LET r == removeConstraint(db, i[1], i[2], i[3], now, 0) IN
    r.outcome = "ok" =>
      LET before == db.phys[i[1]].cols
          after == r.db.phys[i[1]].cols
      IN /\ ColNames(after) = ColNames(before)
         /\ \A c \in ColNames(before) \ {i[2]} :
              ColByName(after, c) = ColByName(before, c)
         /\ ColByName(after, i[2]).type = ColByName(before, i[2]).type
         /\ ColByName(after, i[2]).dflt = ColByName(before, i[2]).dflt

\* In database d the catalog flags of every field are the constraints of
\* its physical column.
FlagsAgree(d) ==
  \A r \in d.tables : \A f \in { x \in d.fields : x.table_id = r.id } :
    /\ f.name \in ColNames(d.phys[r.name].cols)
    /\ ColByName(d.phys[r.name].cols, f.name).notnull = (f.required = 1)
    /\ ColByName(d.phys[r.name].cols, f.name).unique = (f.unique_constraint = 1)

\* The catalog flag that removeConstraint(T, c, constraint) clears, in d.
FlagOf(d, tableName, c, constraint) ==
  LET f == FindField(Val(getTable(d, tableName)), c)
  IN IF constraint = "required" THEN f.required ELSE f.unique

\* The order of removeConstraint's statements, seen from one state.
RemoveConstraintOrder ==
  /\ FlagsAgree(db)
  /\ \A i \in RemoveConstraintInputs : \A now \in NowInputs :
       removeConstraint(db, i[1], i[2], i[3], now, 0).outcome = "ok" =>
         LET temp == TempTableName(i[1], now)
             atUpdate == removeConstraintTry(db, i[1], i[2], i[3], now, 1)
             atCreate == removeConstraintTry(db, i[1], i[2], i[3], now, 2)
             atCopy == removeConstraintTry(db, i[1], i[2], i[3], now, 3)
             atDrop == removeConstraintTry(db, i[1], i[2], i[3], now, 4)
             atRename == removeConstraintTry(db, i[1], i[2], i[3], now, 5)
             atCommit == removeConstraintTry(db, i[1], i[2], i[3], now, 6)
         IN /\ atUpdate.n = 0 /\ atUpdate.db = db
            /\ atCreate.n = 1
            /\ ~FlagOf(atCreate.db, i[1], i[2], i[3])
            /\ atCreate.db.phys = db.phys
            /\ atCopy.n = 2
            /\ temp \in DOMAIN atCopy.db.phys
            /\ atCopy.db.phys[temp].rows = {}
            /\ i[1] \in DOMAIN atCopy.db.phys
            /\ atDrop.n = 3
            /\ atDrop.db.phys[temp].rows = db.phys[i[1]].rows
            /\ i[1] \in DOMAIN atDrop.db.phys
            /\ atRename.n = 4
            /\ i[1] \notin DOMAIN atRename.db.phys
            /\ temp \in DOMAIN atRename.db.phys
            /\ atCommit.ok /\ atCommit.n = 5
            /\ temp \notin DOMAIN atCommit.db.phys
            /\ i[1] \in DOMAIN atCommit.db.phys
            /\ ~FlagOf(atCommit.db, i[1], i[2], i[3])
            /\ \A failAt \in 1..6 :
                 LET r == removeConstraint(db, i[1], i[2], i[3], now, failAt)
                 IN /\ r.outcome = "failed"
                    /\ r.began
                    /\ r.writes = failAt - 1
                    /\ r.db = db
                    /\ FlagOf(r.db, i[1], i[2], i[3]) = FlagOf(db, i[1], i[2], i[3])

\* C15 (order of removeConstraint, one transaction): the statements of a
\* removeConstraint run in the order catalog flag update, CREATE of the
\* temporary relation, copy of the rows, DROP of the original, RENAME of
\* the temporary relation, commit: the transaction stopped at statement k
\* shows the effect of the k-1 statements before it and of no later one.
\* A failure of any of the six rolls back the catalog update with the
\* rest, and in every state between calls the catalog flags equal the
\* physical constraints.
C15_RemoveConstraintOrder == []RemoveConstraintOrder

\* A removeConstraint has just failed, on a table whose field b is required
\* and unique and which holds a row, in a state in which
\* removeConstraint(t, b, required) fails at each physical statement after
\* its catalog update went through.
C15_Witness ==
  /\ lastOp.op = "removeConstraint"
  /\ lastOp.outcome = "failed"
  /\ IsField(db, TableT, NameB)
  /\ FlagOf(db, TableT, NameB, "required")
  /\ db.phys[TableT].rows # {}
  /\ \A failAt \in 2..5 : \A now \in NowInputs :
       LET r == removeConstraint(db, TableT, NameB, "required", now, failAt)
       IN r.outcome = "failed" /\ r.writes >= 1

\* createTable takes the input when no table of its name exists: it passes
\* the schema and its field names are distinct and no system column names.
WellFormed(input) ==
  /\ tableSchemaSchema(input)
  /\ \A j, k \in 1..Len(input.fields) :
       input.fields[j].name = input.fields[k].name => j = k
  /\ \A k \in 1..Len(input.fields) : input.fields[k].name \notin systemColumns

\* C16 (deleteTable): after a successful deleteTable(T), getTable(T) finds
\* nothing, no field row carries the id T had, no physical table T exists,
\* the catalog entry, the physical table and the rows of every other table
\* are what they were, and createTable of any well-formed input named T
\* succeeds.
C16_DeleteTable ==
  \A name \in TwoTablesNames :
    LET r == deleteTable(db, name, 0) IN
    r.outcome = "ok" =>
      /\ ~IsSome(getTable(r.db, name))
      /\ \A f \in r.db.fields : f.table_id # Val(getTable(db, name)).id
      /\ name \notin DOMAIN r.db.phys
      /\ ~tableExists(r.db, name)
      /\ DOMAIN r.db.phys = DOMAIN db.phys \ {name}
      /\ \A other \in DOMAIN r.db.phys : r.db.phys[other] = db.phys[other]
      /\ \A other \in TwoTablesNames \ {name} :
           getTable(r.db, other) = getTable(db, other)
      /\ \A input \in TwoTablesInputs \cup TableInputs :
           (input.name = name /\ WellFormed(input)) =>
             LET again == createTable(r.db, input, randomUUID(r.db), 0)
             IN /\ again.outcome = "ok"
                /\ IsSome(getTable(again.db, name))
                /\ name \in DOMAIN again.db.phys

\* A deleteTable has just committed; table t is gone, and table s is there
\* with two fields and a row.
C16_Witness ==
  /\ lastOp.op = "deleteTable"
  /\ lastOp.outcome = "ok"
  /\ ~IsSome(getTable(db, TableT))
  /\ IsSome(getTable(db, TableS))
  /\ Len(Val(getTable(db, TableS)).fields) = 2
  /\ db.phys[TableS].rows # {}

\* Table name is active in d.
Active(d, name) == IsSome(getTable(d, name))

\* Every call other than createTable on the absent table name is rejected
\* as not found, with no transaction, no write and no change.
AbsentRejects(d, name) ==
  \A failAt \in StorageFailures :
    /\ deleteTable(d, name, failAt) = Rejected(d, "not_found")
    /\ \A f \in FieldInputs : addColumn(d, name, f, failAt) = Rejected(d, "not_found")
    /\ \A c \in FieldNameInputs \cup systemColumns :
         /\ deleteColumn(d, name, c, failAt) = Rejected(d, "not_found")
         /\ \A k \in ConstraintInputs : \A now \in NowInputs :
              removeConstraint(d, name, c, k, now, failAt) = Rejected(d, "not_found")
         /\ \A new \in NewNameInputs \cup {c} :
              renameColumn(d, name, c, new, failAt) = Rejected(d, "not_found")
         /\ \A i \in UpdateInputs \cup TwoTablesUpdateInputs :
              updateColumnMetadata(d, name, c, i[3], failAt) = Rejected(d, "not_found")

\* C17 (a table is absent or active): in every state, each of deleteTable,
\* addColumn, deleteColumn, updateColumnMetadata, removeConstraint and
\* renameColumn on a table that is absent is rejected as not found, opens no
\* transaction and changes nothing, and a table is active exactly when its
\* physical table exists; in every step, a table becomes active only by a
\* committed createTable and absent only by a committed deleteTable, a
\* committed createTable makes a table active and a committed deleteTable
\* makes one absent.
C17_TableLifecycle ==
  /\ [](\A name \in TwoTablesNames :
          /\ Active(db, name) <=> name \in DOMAIN db.phys
          /\ ~Active(db, name) => AbsentRejects(db, name))
  /\ [][/\ \A name \in TwoTablesNames :
            /\ (~Active(db, name) /\ Active(db', name)) =>
                  (lastOp'.op = "createTable" /\ lastOp'.outcome = "ok")
            /\ (Active(db, name) /\ ~Active(db', name)) =>
                  (lastOp'.op = "deleteTable" /\ lastOp'.outcome = "ok")
         /\ (lastOp'.op = "createTable" /\ lastOp'.outcome = "ok") =>
              \E made \in TwoTablesNames : ~Active(db, made) /\ Active(db', made)
         /\ (lastOp'.op = "deleteTable" /\ lastOp'.outcome = "ok") =>
              \E gone \in TwoTablesNames : Active(db, gone) /\ ~Active(db', gone)
         /\ (lastOp'.op \in SchemaOps /\ lastOp'.outcome \notin {"ok"}) =>
              \A kept \in TwoTablesNames : Active(db', kept) = Active(db, kept)]_vars

\* A removeConstraint has just been rejected while table t, which has been
\* created and deleted, and table m are absent and table s is active: the
\* rejected call named an absent table.
C17_Witness ==
  /\ lastOp.op = "removeConstraint"
  /\ lastOp.outcome = "rejected"
  /\ ~Active(db, TableT)
  /\ Active(db, TableS)
  /\ \E r \in db.tables : r.name = TableS /\ r.id = TableIds[2]

\* The updates offered to updateColumnMetadata.
MetadataUpdates ==
  { Updates(Some(<<"D">>), None), Updates(None, Some(<<"d">>)),
    Updates(Some(<<" ", "D">>), Some(<<"d">>)), Updates(None, Some(<<>>)),
    Updates(None, None), Updates(Some(<<>>), None), Updates(Some(<<" ">>), None),
    Updates(Some(<<" ", " ">>), Some(<<"d">>)) }

\* Field got is field f but for its displayName and description.
SameButMetadata(got, f) ==
  /\ got.name = f.name
  /\ got.type = f.type
  /\ got.required = f.required
  /\ got.unique = f.unique
  /\ got.defaultValue = f.defaultValue

\* C18 (updateColumnMetadata is metadata-only): on an existing table, a
\* successful updateColumnMetadata(T, c, updates) leaves the field list as
\* long as it was and every field at its position, the fields other than c
\* unchanged, c with its name, type, required, unique and default, and the
\* table rows of the catalog and all physical tables (columns, constraints,
\* rows) unchanged; c then carries the displayName and the description that
\* the updates give.  A displayName that is empty or blank is rejected
\* before beginTransaction with no change, and so is a column that is no
\* field.
C18_MetadataOnly ==
  \A name \in { TableT, TableS } : \A c \in FieldNameInputs \cup systemColumns :
    \A updates \in MetadataUpdates : \A failAt \in 0..2 :
      LET table == getTable(db, name)
          r == updateColumnMetadata(db, name, c, updates, failAt)
      IN IsSome(table) =>
           IF ~HasField(Val(table), c)
           THEN r = Rejected(db, "column_not_found")
           ELSE IF IsSome(updates.displayName) /\ Trim(Val(updates.displayName)) = <<>>
           THEN r = Rejected(db, "empty_display_name")
           ELSE IF failAt # 0 THEN r.outcome \in { "ok", "failed" }
           ELSE LET before == Val(table).fields
                    after == Val(getTable(r.db, name)).fields
                IN /\ r.outcome = "ok"
                   /\ Len(after) = Len(before)
                   /\ \A k \in 1..Len(before) :
                        IF before[k].name = c
                        THEN /\ SameButMetadata(after[k], before[k])
                             /\ IsSome(updates.displayName) =>
                                  after[k].displayName = Val(updates.displayName)
                             /\ ~IsSome(updates.displayName) =>
                                  after[k].displayName = before[k].displayName
                             /\ ~IsSome(updates.description) =>
                                  after[k].description = before[k].description
                             /\ (IsSome(updates.description)
                                   /\ Val(updates.description) # <<>>) =>
                                  after[k].description = updates.description
                        ELSE after[k] = before[k]
                   /\ r.db.tables = db.tables
                   /\ r.db.phys = db.phys
                   /\ \A f \in r.db.fields : \E g \in db.fields :
                        [f EXCEPT !.display_name = g.display_name,
                                  !.description = g.description] = g

\* An updateColumnMetadata has just committed on table s, which has the
\* fields a and c and a row: it has given a the displayName D.
C18_Witness ==
  /\ lastOp.op = "updateColumnMetadata"
  /\ lastOp.outcome = "ok"
  /\ lastOp.column = Some(NameA)
  /\ IsField(db, TableS, NameA)
  /\ IsField(db, TableS, NameC)
  /\ FindField(Val(getTable(db, TableS)), NameA).displayName = <<"D">>
  /\ db.phys[TableS].rows # {}

\* The errors that the checks of the Schema Service throw: validation,
\* conflict and not-found.
CheckErrors ==
  { "validation", "table_exists", "not_found", "column_exists",
    "required_without_default", "system_column", "column_not_found",
    "empty_display_name", "empty_name", "invalid_identifier", "system_column_name" }

\* Outcome r of a call on database d that ended with an error of a check
\* has opened no transaction and written nothing.
FailsFast(d, r) ==
  r.error \in CheckErrors => (r.outcome = "rejected" /\ ~r.began /\ r.writes = 0 /\ r.db = d)

\* The checks of the seven calls, seen from one state.
ChecksBeforeBegin ==
  \A failAt \in { 0, 1, 0 - 1 } :
    /\ \A input \in TableInputs :
         LET r == createTable(db, input, randomUUID(db), failAt) IN
         /\ FailsFast(db, r)
         /\ r.began => (tableSchemaSchema(input) /\ ~tableExists(db, input.name))
    /\ \A name \in TableNameInputs :
         LET r == deleteTable(db, name, failAt) IN
         FailsFast(db, r) /\ (r.began => Active(db, name))
    /\ \A i \in AddColumnInputs :
         LET r == addColumn(db, i[1], i[2], failAt) IN
         /\ FailsFast(db, r)
         /\ r.began =>
              /\ Active(db, i[1])
              /\ fieldDefinitionSchema(i[2])
              /\ ~IsField(db, i[1], i[2].name)
              /\ i[2].required => IsSome(i[2].defaultValue)
    /\ \A i \in ColumnInputs :
         LET r == deleteColumn(db, i[1], i[2], failAt) IN
         /\ FailsFast(db, r)
         /\ r.began => (IsField(db, i[1], i[2]) /\ i[2] \notin systemColumns)
    /\ \A i \in ColumnInputs : \A u \in UpdateInputs :
         LET updates == u[3]
             r == updateColumnMetadata(db, i[1], i[2], updates, failAt)
         IN
         /\ FailsFast(db, r)
         /\ r.began =>
              /\ IsField(db, i[1], i[2])
              /\ IsSome(updates.displayName) => Trim(Val(updates.displayName)) # <<>>
    /\ \A i \in RemoveConstraintInputs : \A now \in NowInputs :
         LET r == removeConstraint(db, i[1], i[2], i[3], now, failAt) IN
         FailsFast(db, r) /\ (r.began => IsField(db, i[1], i[2]))
    /\ \A i \in RenameColumnInputs :
         LET r == renameColumn(db, i[1], i[2], i[3], failAt) IN
         /\ FailsFast(db, r)
         /\ r.began =>
              /\ IsField(db, i[1], i[2])
              /\ i[2] \notin systemColumns
              /\ identifierRegex(Trim(i[3]))
              /\ Trim(i[3]) \notin systemColumns
              /\ ~IsField(db, i[1], Trim(i[3]))

C20_RollbackBeforeError ==
  [][(lastOp'.op \in SchemaOps /\ lastOp'.began) =>
       /\ ~inTransaction'
       /\ lastOp'.outcome = "failed" => (db' = db /\ lastOp'.error = "storage")]_vars

\* A call opened a transaction, one of its statements failed and the engine
\* ended the transaction: the call returned the error of ROLLBACK and the
\* adapter still records a transaction in progress.
C20_AdapterStuck ==
  /\ lastOp.op \in SchemaOps
  /\ lastOp.began
  /\ lastOp.outcome = "failed"
  /\ lastOp.error = "transaction_state"
  /\ inTransaction

\* The transaction calls of the adapter.
TransactionCalls == { "beginTransaction", "commit", "rollback" }

\* C21 (adapter transaction state machine): beginTransaction on a connected
\* adapter with a transaction open fails with the transaction-state error
\* and leaves the database, the pending writes and the open transaction as
\* they are; commit and rollback with no transaction open fail (with the
\* transaction-state error when the flag is clear) and change nothing; a
\* transaction is open only under a set flag on a connected adapter, it is
\* opened only by a beginTransaction that succeeds with none open, and a
\* commit or rollback succeeds only with one open and closes it.
C21_TransactionStateMachine ==
  /\ [](IsSome(snapshot) => (inTransaction /\ connected))
  /\ [][/\ (lastOp'.op = "beginTransaction" /\ connected
              /\ (inTransaction \/ IsSome(snapshot))) =>
             /\ lastOp'.error = "transaction_state"
             /\ UNCHANGED <<db, snapshot, inTransaction, connected>>
        /\ (lastOp'.op \in {"commit", "rollback"} /\ connected /\ ~IsSome(snapshot)) =>
             /\ lastOp'.outcome = "failed"
             /\ ~inTransaction => lastOp'.error = "transaction_state"
             /\ UNCHANGED <<db, snapshot, inTransaction, connected>>
        /\ (IsSome(snapshot') /\ snapshot' # snapshot) =>
             /\ lastOp'.op = "beginTransaction" /\ lastOp'.outcome = "ok"
             /\ ~IsSome(snapshot) /\ ~inTransaction
             /\ snapshot' = Some(db) /\ db' = db
        /\ (lastOp'.op \in TransactionCalls /\ lastOp'.outcome = "ok") =>
             IF lastOp'.op = "beginTransaction"
             THEN ~IsSome(snapshot) /\ IsSome(snapshot') /\ inTransaction'
             ELSE /\ IsSome(snapshot) /\ inTransaction
                  /\ ~IsSome(snapshot') /\ ~inTransaction'
                  /\ db' = IF lastOp'.op = "commit" THEN db ELSE Val(snapshot)]_vars

\* beginTransaction was refused while a transaction with a pending write
\* was open.
C21_Witness ==
  /\ lastOp.op = "beginTransaction"
  /\ lastOp.error = "transaction_state"
  /\ IsSome(snapshot)
  /\ db # Val(snapshot)

\* The calls of the adapter other than connect and disconnect.
AdapterMethods ==
  { "query", "execute", "beginTransaction", "commit", "rollback", "tableExists",
    "getTableSchema", "createTable", "dropTable", "addColumn", "dropColumn",
    "renameColumn", "removeConstraint" }

\* C22 (calls on an adapter that is not connected): query, execute,
\* beginTransaction, commit, rollback, tableExists, getTableSchema,
\* createTable, dropTable, addColumn, dropColumn, renameColumn and
\* removeConstraint, called while the adapter holds no handle, fail with
\* the connection error and change neither the database nor the flag nor
\* the connection.
C22_NotConnected ==
  [][(~connected /\ lastOp'.op \in AdapterMethods) =>
       /\ lastOp'.outcome = "failed"
       /\ lastOp'.error = "not_connected"
       /\ UNCHANGED <<db, inTransaction, connected, snapshot, observed>>]_vars

\* removeConstraint was called after disconnect, on a database that holds
\* the table.
C22_Witness ==
  /\ ~connected
  /\ lastOp.op = "removeConstraint"
  /\ lastOp.error = "not_connected"
  /\ TableT \in DOMAIN db.phys

\* C23 (table names are unique): no two rows of the table catalog carry the
\* same name, and createTable with the name of a table of the catalog, for
\* every offered input and failure point, is rejected with no transaction
\* begun and no write, and returns the database it found: the catalog
\* entry, the fields, the physical columns and the rows of the existing
\* table are the same.
C23_TableNamesUnique ==
  /\ \A r1, r2 \in db.tables : r1.name = r2.name => r1 = r2
  /\ \A input \in TwoTablesInputs \cup TableInputs : \A failAt \in {0, 1, 0 - 1} :
       IsSome(getTable(db, input.name)) =>
         LET r == createTable(db, input, randomUUID(db), failAt) IN
         /\ r.outcome = "rejected"
         /\ r.error \in {"validation", "table_exists"}
         /\ tableSchemaSchema(input) => r.error = "table_exists"
         /\ ~r.began
         /\ r.writes = 0
         /\ getTable(r.db, input.name) = getTable(db, input.name)
         /\ r.db.phys[input.name] = db.phys[input.name]
         /\ r.db = db

\* createTable was rejected while both tables exist and s holds a row.
C23_Witness ==
  /\ lastOp.op = "createTable"
  /\ lastOp.outcome = "rejected"
  /\ IsSome(getTable(db, TableT))
  /\ IsSome(getTable(db, TableS))
  /\ db.phys[TableS].rows # {}

\* A field definition like f under the name n.
Named(f, n) == [f EXCEPT !.name = n]

\* C24 (no field carries a system column name): no row of the field catalog
\* is named id, created_at or updated_at; and in every reachable state a
\* createTable with a field of such a name, an addColumn of such a field
\* and a renameColumn to such a name, for each of the three names, leaves a
\* database without such a field: the first two fail inside their
\* transaction and are rolled back, the third is rejected.
C24_NoSystemFieldNames ==
  /\ \A f \in db.fields : f.name \notin systemColumns
  /\ \A n \in systemColumns :
       /\ \A name \in {TableT, TableS} :
            LET r == createTable(db, TableInput(name, <<FieldPlain, Named(FieldPlain, n)>>),
                                 randomUUID(db), 0)
            IN /\ r.outcome # "ok"
               /\ r.db = db
               /\ ~tableExists(db, name) => (r.began /\ r.outcome = "failed")
       /\ \A name \in {TableT, TableS} :
            IsSome(getTable(db, name)) =>
              LET r == addColumn(db, name, Named(FieldPlain, n), 0) IN
              r.outcome = "failed" /\ r.began /\ r.db = db
       /\ \A i \in TwoTablesRenameColumnInputs \cup RenameColumnInputs :
            LET r == renameColumn(db, i[1], i[2], n, 0) IN
            r.outcome = "rejected" /\ r.db = db

\* An addColumn on s has failed inside its transaction, in a state where
\* adding a field named id fails that way.
C24_Witness ==
  /\ lastOp.op = "addColumn"
  /\ lastOp.outcome = "failed"
  /\ lastOp.began
  /\ IsSome(getTable(db, TableS))
  /\ addColumn(db, TableS, Named(FieldPlain, NameId), 0).outcome = "failed"
  /\ db.phys[TableS].rows # {}

\* The field names of every table of database d are pairwise distinct, in
\* the field catalog and in the list that getTable returns.
DistinctFieldNames(d) ==
  /\ \A f, g \in d.fields : (f.table_id = g.table_id /\ f.name = g.name) => f = g
  /\ \A r \in d.tables :
       LET fields == Val(getTable(d, r.name)).fields IN
       \A i, j \in 1..Len(fields) : fields[i].name = fields[j].name => i = j

\* C25 (field names are unique within a table): the field names of every
\* table are pairwise distinct in every reachable state, and stay so after
\* every offered createTable (a list that repeats a name fails inside its
\* transaction and is rolled back), addColumn (a name of the table is
\* rejected) and renameColumn (to a free name, or rejected for a name of
\* another field of the table).
C25_FieldNamesDistinct ==
  /\ DistinctFieldNames(db)
  /\ \A input \in TwoTablesInputs \cup TableInputs
                   \cup { TableInput(TableS, <<FieldPlain, FieldKey, FieldPlain>>) } :
       LET r == createTable(db, input, randomUUID(db), 0) IN
       /\ DistinctFieldNames(r.db)
       /\ (\E i, j \in 1..Len(input.fields) :
             i # j /\ input.fields[i].name = input.fields[j].name) =>
            (r.outcome # "ok" /\ r.db = db)
  /\ \A i \in TwoTablesAddColumnInputs \cup AddColumnInputs :
       LET r == addColumn(db, i[1], i[2], 0) IN
       /\ DistinctFieldNames(r.db)
       /\ (IsSome(getTable(db, i[1])) /\ HasField(Val(getTable(db, i[1])), i[2].name)) =>
            (r.outcome = "rejected" /\ r.db = db)
  /\ \A i \in TwoTablesRenameColumnInputs \cup RenameColumnInputs
               \cup { <<TableT, NameB, NameA>>, <<TableS, NameA, NameB>>,
                      <<TableS, NameA, NameC>> } :
       LET r == renameColumn(db, i[1], i[2], i[3], 0) IN
       /\ DistinctFieldNames(r.db)
       /\ ( /\ IsSome(getTable(db, i[1]))
            /\ HasField(Val(getTable(db, i[1])), i[2])
            /\ HasField(Val(getTable(db, i[1])), Trim(i[3]))
            /\ Trim(i[3]) # i[2] ) =>
            (r.outcome = "rejected" /\ r.db = db)

\* Table s has two fields and a row, and renaming one field to a free name
\* commits.
C25_Witness ==
  /\ IsSome(getTable(db, TableS))
  /\ Len(Val(getTable(db, TableS)).fields) = 2
  /\ db.phys[TableS].rows # {}
  /\ renameColumn(db, TableS, NameA, NameB, 0).outcome = "ok"
  /\ lastOp.op = "addColumn"
  /\ lastOp.outcome = "ok"

\* The sort positions of the fields of each table of d are pairwise distinct.
SortPositionsDistinct(d) ==
  \A f, g \in d.fields : (f.table_id = g.table_id /\ f.sort_order = g.sort_order) => f = g

\* C26 (addColumn appends): after every call the sort positions of the
\* fields of a table are pairwise distinct, and a committed addColumn
\* leaves the new field last in getTable's list, behind the fields the
\* table had, which keep their order.
C26_AddColumnLast ==
  [][/\ SortPositionsDistinct(db')
     /\ (lastOp'.op = "addColumn" /\ lastOp'.outcome = "ok") =>
          LET before == Val(getTable(db, TableT)).fields
              after == Val(getTable(db', TableT)).fields
          IN /\ Len(after) = Len(before) + 1
             /\ after[Len(after)].name = Val(lastOp'.column)
             /\ SubSeq(after, 1, Len(before)) = before]_vars

\* The table that getTable answered names the columns cols, with the three
\* system columns.
SameColumns(table, cols) ==
  ColNames(cols) = {NameId} \cup { table.fields[i].name : i \in 1..Len(table.fields) }
                     \cup {NameCreatedAt, NameUpdatedAt}

\* This step is a read op of another task: it leaves an observation and
\* nothing else.
Reads(op) ==
  /\ IsSome(observed') /\ Val(observed').op = op
  /\ UNCHANGED <<db, inTransaction, lastOp, connected, snapshot, flight>>

\* Another task reads, in this step, the table of the schema call in flight.
ReadsDuring(op) ==
  /\ IsSome(flight) /\ Reads(op)
  /\ Val(observed').tableName = Val(flight).tableName

\* C27 (no partial state is observable): while a schema call is in flight,
\* the table that another task's getTable answers names the columns that
\* the physical table has at that moment, and when the call in flight then
\* fails and rolls back, what getTable answered during it is what the
\* catalog held before the call.
C27_NoPartialState ==
  [][/\ ReadsDuring("getTable") /\ IsSome(Val(observed').result) =>
          SameColumns(Val(Val(observed').result),
                      IF Val(flight).tableName \in DOMAIN db.phys
                      THEN db.phys[Val(flight).tableName].cols ELSE <<>>)
     /\ (/\ IsSome(flight) /\ ~IsSome(flight') /\ lastOp'.outcome = "failed"
         /\ IsSome(observed) /\ Val(observed).op = "getTable" /\ Val(observed).during)
        => Val(observed).result = getTable(Val(flight).base, Val(observed).tableName)]_vars

\* The call in flight f as one call on the database it found.
FlightHandler(f) ==
  IF f.op = "addColumn"
  THEN addColumn(f.base, f.tableName, Val(f.field), 0)
  ELSE removeConstraint(f.base, f.tableName, f.column, f.constraint, f.now, 0)

\* Databases d and e have the same catalog and the same physical schema.
SameSchema(d, e) ==
  /\ d.tables = e.tables
  /\ d.fields = e.fields
  /\ DOMAIN d.phys = DOMAIN e.phys
  /\ \A n \in DOMAIN d.phys : d.phys[n].cols = e.phys[n].cols

\* This step is a whole schema call of another task.
SecondCall ==
  \/ \E input \in TasksTableInputs : CreateTable(input, 0)
  \/ AddColumn(TableT, FieldPlain, 0)
  \/ RemoveConstraint(TableT, NameB, "required", 0)

\* C28 (a second schema call is refused): a schema call made while another
\* call's transaction is open changes neither the database nor the open
\* transaction nor the adapter's flag; when its checks pass it fails with
\* the transaction error and has begun nothing; and the call in flight
\* ends either committed, with the catalog and physical schema that the
\* call alone gives, or rolled back to the database it found.
C28_SecondCallRefused ==
  [][/\ (IsSome(flight) /\ SecondCall) =>
          /\ UNCHANGED <<db, snapshot, inTransaction, flight, connected>>
          /\ lastOp'.outcome \in {"rejected", "failed"}
          /\ lastOp'.outcome = "failed" =>
               lastOp'.error = "transaction_state" /\ ~lastOp'.began
     /\ (/\ IsSome(flight) /\ AddColumn(TableT, FieldPlain, 0)
         /\ addColumnCheck(db, TableT, FieldPlain) = "none")
        => lastOp'.outcome = "failed"
     /\ (/\ IsSome(flight) /\ RemoveConstraint(TableT, NameB, "required", 0)
         /\ removeConstraintCheck(db, TableT, NameB) = "none")
        => lastOp'.outcome = "failed"
     /\ (IsSome(flight) /\ ~IsSome(flight')) =>
          /\ ~inTransaction' /\ ~IsSome(snapshot')
          /\ IF lastOp'.outcome = "ok"
             THEN /\ Val(flight).done = FlightLength(Val(flight))
                  /\ SameSchema(db', FlightHandler(Val(flight)).db)
             ELSE db' = Val(flight).base]_vars

\* A call in flight has made its first write, and another task's
\* removeConstraint has just been refused.
C28_Witness ==
  /\ IsSome(flight)
  /\ Val(flight).done >= 1
  /\ lastOp.op = "removeConstraint"
  /\ lastOp.outcome = "failed"
  /\ lastOp.error = "transaction_state"

\* C29 (record reads during a schema transaction): while the transaction of
\* a schema call is open and has written, another task's record read on the
\* table of the call either fails or answers nothing that the uncommitted
\* schema change has produced: a record it returns has the columns of the
\* table as committed.
C29_ReadFailsFast ==
  [][(ReadsDuring("get") /\ Val(flight).done >= 1) =>
       LET got == Val(observed').result
           base == Val(flight).base
       IN \/ got.outcome = "failed"
          \/ IsSome(got.record) =>
               DOMAIN Val(got.record) = ColNames(base.phys[Val(flight).tableName].cols)]_vars

\* The table that getTable answered lists the catalog fields rows, each
\* once, by ascending sort_order.
ListsAscending(table, rows) ==
  /\ Len(table.fields) = Cardinality(rows)
  /\ { table.fields[i].name : i \in 1..Len(table.fields) } = { f.name : f \in rows }
  /\ \A i, j \in 1..Len(table.fields) :
       i < j =>
         \A x, y \in rows :
           x.name = table.fields[i].name /\ y.name = table.fields[j].name =>
             x.sort_order <= y.sort_order

\* C30 (getTables and getTable are pure catalog reads): a getTable or a
\* getTables leaves the database, the adapter's flag, the engine's
\* transaction and every call in flight as they are; getTable answers null
\* exactly when the catalog has no row of that name, and otherwise the
\* table of that row with its catalog fields by ascending sort position;
\* getTables answers one such table for every catalog row.
C30_PureCatalogReads ==
  [][/\ \A tableName \in TableNameInputs :
          GetTable(tableName) =>
            /\ UNCHANGED <<db, inTransaction, lastOp, connected, snapshot, flight>>
            /\ LET got == Val(observed').result IN
               /\ ~IsSome(got) <=> ~ \E r \in db.tables : r.name = tableName
               /\ IsSome(got) =>
                    /\ \E r \in db.tables : r.name = tableName /\ r.id = Val(got).id
                    /\ ListsAscending(Val(got),
                                      { f \in db.fields : f.table_id = Val(got).id })
     /\ GetTables =>
          /\ UNCHANGED <<db, inTransaction, lastOp, connected, snapshot, flight>>
          /\ LET got == Val(observed').result IN
             /\ { t.name : t \in got } = { r.name : r \in db.tables }
             /\ Cardinality(got) = Cardinality(db.tables)
             /\ \A t \in got :
                  ListsAscending(t, { f \in db.fields : f.table_id = t.id })]_vars

\* A task has read with getTable a table whose two fields are listed
\* against the order of their names.
C30_Witness ==
  /\ IsSome(observed)
  /\ Val(observed).op = "getTable"
  /\ IsSome(Val(observed).result)
  /\ Len(Val(Val(observed).result).fields) = 2
  /\ Val(Val(observed).result).fields[1].name = NameC
  /\ Val(Val(observed).result).fields[2].name = NameB

SameConstraintsAndRows(d, e, tableName) ==
  /\ IsSome(getTable(d, tableName)) /\ IsSome(getTable(e, tableName))
  /\ LET fd == Val(getTable(d, tableName)).fields
         fe == Val(getTable(e, tableName)).fields
     IN /\ Len(fd) = Len(fe)
        /\ \A i \in 1..Len(fd) :
             /\ fd[i].name = fe[i].name
             /\ fd[i].required = fe[i].required
             /\ fd[i].unique = fe[i].unique
  /\ ColNames(d.phys[tableName].cols) = ColNames(e.phys[tableName].cols)
  /\ \A c \in ColNames(d.phys[tableName].cols) :
       /\ ColByName(d.phys[tableName].cols, c).notnull
            = ColByName(e.phys[tableName].cols, c).notnull
       /\ ColByName(d.phys[tableName].cols, c).unique
            = ColByName(e.phys[tableName].cols, c).unique
  /\ d.phys[tableName].rows = e.phys[tableName].rows

\* C32 (removeConstraint is idempotent and tolerates an absent constraint):
\* a removeConstraint(T, c, kind) that passes its checks and meets no
\* storage failure succeeds, whether or not c has the constraint; when c
\* did not have it, the catalog flags, the physical constraints and the
\* rows of T are what they were; and the same call applied once more
\* succeeds and leaves the flags, constraints and rows of the first call.
C32_RemoveConstraintIdempotent ==
  [][\A i \in RemoveConstraintInputs :
       (/\ lastOp'.op = "removeConstraint"
        /\ ~inTransaction
        /\ removeConstraintCheck(db, i[1], i[2]) = "none"
        /\ RemoveConstraint(i[1], i[2], i[3], 0))
       => /\ lastOp'.outcome = "ok"
          /\ ~FlagOf(db, i[1], i[2], i[3]) => SameConstraintsAndRows(db, db', i[1])
          /\ \A now \in NowInputs :
               LET again == removeConstraint(db', i[1], i[2], i[3], now, 0)
               IN /\ again.outcome = "ok"
                  /\ SameConstraintsAndRows(db', again.db, i[1])]_vars

\* removeConstraint(t, a, required) has just committed on a table that
\* holds a row: field a, which no input makes required, had no constraint
\* to remove.
C32_Witness ==
  /\ lastOp.op = "removeConstraint"
  /\ lastOp.outcome = "ok"
  /\ lastOp.column = Some(NameA)
  /\ IsField(db, TableT, NameA)
  /\ db.phys[TableT].rows # {}

\* C33 (catalog flags are the physical constraints): in every state that
\* the calls createTable, addColumn, renameColumn, removeConstraint,
\* deleteColumn (and the other calls of the service) leave behind, every
\* catalog field of every table has a physical column of its name that is
\* NOT NULL exactly when the field is required and UNIQUE exactly when the
\* field is unique.
C33_FlagsArePhysical ==
  \A r \in db.tables : \A f \in db.fields :
    f.table_id = r.id =>
      /\ r.name \in DOMAIN db.phys
      /\ FlagsAgree(db)

\* renameColumn has just committed and table t has the field c, unique and
\* not required: the field was created required and unique under the name
\* b, lost its NOT NULL in a rebuild and was then renamed.
C33_Witness ==
  /\ lastOp.op = "renameColumn"
  /\ lastOp.outcome = "ok"
  /\ IsField(db, TableT, NameC)
  /\ FindField(Val(getTable(db, TableT)), NameC).unique
  /\ ~FindField(Val(getTable(db, TableT)), NameC).required
  /\ ColByName(db.phys[TableT].cols, NameC).unique
  /\ ~ColByName(db.phys[TableT].cols, NameC).notnull

\* C34 (the rebuild touches no other relation): a removeConstraint(T, c,
\* kind) that returns, with success or with an error, leaves the set of
\* physical relations as it was, so that no temporary relation of its own
\* remains; it leaves every relation other than T, the catalog rows of
\* every table and the catalog fields of every other table as they were;
\* and when a relation of the temporary name exists already, the call
\* fails and the database is what it was.
C34_RebuildFrame ==
  [][\A i \in RebuildInputs : \A failAt \in StorageFailures :
       (/\ lastOp'.op = "removeConstraint"
        /\ RemoveConstraint(i[1], i[2], i[3], failAt))
       => /\ DOMAIN db'.phys = DOMAIN db.phys
          /\ \A n \in DOMAIN db.phys \ {i[1]} : db'.phys[n] = db.phys[n]
          /\ db'.tables = db.tables
          /\ \A f \in db.fields \cup db'.fields :
               (\E r \in db.tables : r.id = f.table_id /\ r.name # i[1])
                  => f \in db.fields \cap db'.fields
          /\ (\E now \in NowInputs : TempTableName(i[1], now) \in DOMAIN db.phys)
               => lastOp'.outcome # "ok" /\ db' = db]_vars

\* removeConstraint has failed on table t while a user table has the name
\* of the rebuild's temporary relation; both tables hold their row.
C34_Witness ==
  /\ lastOp.op = "removeConstraint"
  /\ lastOp.outcome = "failed"
  /\ lastOp.error = "storage"
  /\ TableTemp \in DOMAIN db.phys
  /\ \E r \in db.tables : r.name = TableTemp
  /\ db.phys[TableTemp].rows # {}
  /\ TableT \in DOMAIN db.phys
  /\ db.phys[TableT].rows # {}

\* The ids of the records that database d holds, in whatever relation.
RecordIds(d) ==
  UNION { { r[NameId] : r \in d.phys[n].rows } : n \in DOMAIN d.phys }

\* C35 (a reported record write survives another task's rollback): every
\* record that the database holds when the catch block of a schema call
\* in flight rolls back (each was reported to its writer as inserted) is
\* still held after the rollback.
C35_WritesSurviveRollback ==
  [][FlightRollback => RecordIds(db) \subseteq RecordIds(db')]_vars

\* C36 (the in-transaction flag is set only while connected): after every
\* call of the adapter, the flag inTransaction is set only if the adapter
\* holds a connection, and a beginTransaction that directly follows a
\* connect succeeds.
C36_FlagOnlyWhileConnected ==
  [][/\ inTransaction' => connected'
     /\ (lastOp.op = "connect" /\ lastOp'.op = "beginTransaction")
          => lastOp'.outcome = "ok"]_vars

\* C37 (every active table keeps a field): in every state that the calls
\* of the service leave behind, every table of the catalog has at least
\* one catalog field.
C37_TablesHaveFields ==
  \A r \in db.tables : \E f \in db.fields : f.table_id = r.id

\* The physical table that SQLiteAdapter.createTable makes of input in
\* database d.
AdapterCreated(d, input) ==
  RunStatements(d, AdapterStatements(
    AdapterCall("createTable", input.name, NameA, NameA, "required", input.fields),
    <<>>))

\* The database that SQLiteAdapter.removeConstraint makes of d, given the
\* fields that the service's rebuild reads from the catalog.
AdapterRebuilt(d, tableName, columnName, constraint, fields, now) ==
  RunStatements(d, AdapterStatements(
    AdapterCall("removeConstraint", tableName, columnName, columnName, constraint,
                fields),
    now))

\* C38 (the service's physical steps are the adapter's DDL methods): the
\* physical table that a committed createTable of the service leaves has
\* the column definitions (name, type, NOT NULL, UNIQUE, DEFAULT) that
\* SQLiteAdapter.createTable gives the same field list, and the table that
\* a committed removeConstraint leaves is the table, columns and rows,
\* that SQLiteAdapter.removeConstraint makes of the same physical table
\* with the same fields, column and constraint.
C38_ServiceAsAdapter ==
  [][/\ \A input \in TableInputs :
          (/\ lastOp'.op = "createTable"
           /\ lastOp'.outcome = "ok"
           /\ CreateTable(input, 0))
          => /\ AdapterCreated(db, input).ok
             /\ db'.phys[input.name].cols
                  = AdapterCreated(db, input).db.phys[input.name].cols
     /\ \A i \in RemoveConstraintInputs : \A now \in NowInputs :
          (/\ lastOp'.op = "removeConstraint"
           /\ lastOp'.outcome = "ok"
           /\ RemoveConstraint(i[1], i[2], i[3], 0))
          => LET r == AdapterRebuilt(db, i[1], i[2], i[3],
                                     Val(getTable(db', i[1])).fields, now)
             IN r.ok /\ r.db.phys = db'.phys]_vars
====
